---------------------------- MODULE Spec2Model ----------------------------
(***************************************************************************)
(* A model of the 3DAST parse -> build pipeline:                           *)
(*   - Node            (src/src/models/node.ts)                            *)
(*   - Graph           (src/unnamed/part_007, class Graph)                 *)
(*   - ASTBuilder      (src/src/parser/ast-builder.ts)                     *)
(*   - MermaidParser   (src/unnamed/part_011)                              *)
(*   - AST3DGenerator  (src/src/generators/3d-generator.ts)                *)
(*                                                                         *)
(* Numbers.  The program computes with IEEE doubles.  The model computes   *)
(* with integers that count hundredths (Unit == 100), so 0.5 is 50 and     *)
(* 30.0 is 3000.  Sums, differences and halves of the values used here are *)
(* exact; products with cos/sin, square roots and quotients are rounded    *)
(* toward minus infinity to a hundredth.                                   *)
(*                                                                         *)
(* Optional values.  An optional field (anchor?) is a sequence of length   *)
(* at most one: << >> is undefined, << v >> is v.  An optional string      *)
(* (faceId?) that the code only tests for truthiness is "" when absent.    *)
(*                                                                         *)
(* Maps.  A JavaScript Map iterates in insertion order, set() on a key     *)
(* already present keeps the key's place, delete() removes it.  A Map is   *)
(* modelled as a sequence of its values, each carrying its key as .id.     *)
(***************************************************************************)
EXTENDS Integers, Sequences, FiniteSets, TLC

VARIABLES
    nd,           \* SpecNode: one Node object
    nodes,        \* Graph.nodes       (Map<string, Node>, insertion order)
    connections,  \* Graph.connections (Map<string, Connection>)
    lastOp,       \* the Graph call that returned last: <<name, argument>>
    parsed,       \* ASTBuilder.build: its ParsedGraph argument
    config,       \* ASTBuilder.config.layout
    pc,           \* ASTBuilder.build: the step it is at
    lines,        \* MermaidParser.lines
    currentLine,  \* MermaidParser.currentLine (0-based, as in the code)
    pnodes,       \* MermaidParser.nodes
    pconns,       \* MermaidParser.connections
    header,       \* parse(): its locals title, description, metadata
    ppc,          \* parse(): "loop" inside the for loop, "done" after return,
                  \* "threw"; then "built" / "buildthrew" after build and
                  \* "validated" after validate
    report,       \* AST3DGenerator.validate: the value it returned
    earlier       \* what the generator's earlier run on this input gave,
                  \* << >> in its first run

vars == <<nd, nodes, connections, lastOp, parsed, config, pc,
          lines, currentLine, pnodes, pconns, header, ppc, report, earlier>>

nodeVars  == <<nd>>
graphVars == <<nodes, connections, lastOp>>
buildVars == <<parsed, config, pc>>
parseVars == <<lines, currentLine, pnodes, pconns, header, ppc, report,
               earlier>>

-----------------------------------------------------------------------------
(* Numbers and vectors *)

Unit == 100

Vec(x, y, z) == [x |-> x, y |-> y, z |-> z]

Origin == Vec(0, 0, 0)

UnitScale == Vec(Unit, Unit, Unit)

\* the value NaN of a double (parseFloat of a text that starts with no
\* number): a number outside the range of the values computed here
NaN == -999999999

\* a + b, a - b and a / 2 of doubles: NaN when an operand is NaN
Plus(a, b) == IF a = NaN \/ b = NaN THEN NaN ELSE a + b

Minus(a, b) == IF a = NaN \/ b = NaN THEN NaN ELSE a - b

\* Math.max: NaN when an argument is NaN
Max(a, b) == IF a = NaN \/ b = NaN THEN NaN ELSE IF a >= b THEN a ELSE b

\* the least element of a non-empty set of integers
SetMin(S) == CHOOSE i \in S : \A j \in S : i <= j

Max3(a, b, c) == Max(a, Max(b, c))

Abs(a) == IF a < 0 THEN -a ELSE a

\* a / 2
Half(a) == IF a = NaN THEN NaN ELSE a \div 2

\* c * r for c in thousandths: NaN when r is NaN
Times1000(c, r) == IF r = NaN THEN NaN ELSE (c * r) \div 1000

\* Math.cos and Math.sin of i * 2*PI / 12, in thousandths
Cos12 == <<1000, 866, 500, 0, -500, -866, -1000, -866, -500, 0, 500, 866>>

Sin12 == <<0, 500, 866, 1000, 866, 500, 0, -500, -866, -1000, -866, -500>>

\* Array.prototype.includes on a sequence
Includes(seq, e) == \E i \in 1..Len(seq) : seq[i] = e

\* Array.prototype.filter((id) => id !== e)
Without(seq, e) == SelectSeq(seq, LAMBDA v : v /= e)

-----------------------------------------------------------------------------
(* Node: src/src/models/node.ts *)

GeometryTypes == {"cube", "dodecahedron", "plane"}

Face(id, center) == [id |-> id, center |-> center]

\* Only the front and the back face are pushed; the code's comment
\* "Add top, bottom, left, right faces..." stands where the others would be.
generateCubeFaces(position, scale) ==
    << Face("front", Vec(position.x, position.y, Plus(position.z, Half(scale.z)))),
       Face("back",  Vec(position.x, position.y, Minus(position.z, Half(scale.z)))) >>

generatePlaneFaces(position, scale) ==
    << Face("front", position) >>

DodecaFaceName == [i \in 0..11 |->
    <<"face_0", "face_1", "face_2", "face_3", "face_4", "face_5", "face_6",
      "face_7", "face_8", "face_9", "face_10", "face_11">>[i + 1]]

generateDodecahedronFaces(position, scale) ==
    LET radius == Half(Max3(scale.x, scale.y, scale.z))
    IN  [k \in 1..12 |->
            Face(DodecaFaceName[k - 1],
                 Vec(Plus(position.x, Times1000(Cos12[k], radius)),
                     Plus(position.y, Times1000(Sin12[k], radius)),
                     position.z))]

generateFaces(geometry, position, scale) ==
    CASE geometry = "cube"         -> generateCubeFaces(position, scale)
      [] geometry = "plane"        -> generatePlaneFaces(position, scale)
      [] geometry = "dodecahedron" -> generateDodecahedronFaces(position, scale)
      [] OTHER                     -> generateCubeFaces(position, scale)

calculateBoundingBox(position, scale) ==
    [min    |-> Vec(Minus(position.x, Half(scale.x)),
                    Minus(position.y, Half(scale.y)),
                    Minus(position.z, Half(scale.z))),
     max    |-> Vec(Plus(position.x, Half(scale.x)),
                    Plus(position.y, Half(scale.y)),
                    Plus(position.z, Half(scale.z))),
     center |-> position,
     size   |-> scale]

NodeTypes == {"function", "component", "datapath", "module", "class",
              "interface", "variable", "constant"}

getDefaultColor(type) ==
    CASE type = "function"  -> "#4CAF50"
      [] type = "component" -> "#2196F3"
      [] type = "datapath"  -> "#FF9800"
      [] type = "module"    -> "#9C27B0"
      [] type = "class"     -> "#F44336"
      [] type = "interface" -> "#00BCD4"
      [] type = "variable"  -> "#FFEB3B"
      [] type = "constant"  -> "#795548"
      [] OTHER              -> "#808080"

\* new Node(id, type, name, geometry)
NewNode(id, type, name, geometry) ==
    [id          |-> id,
     type        |-> type,
     name        |-> name,
     geometry    |-> geometry,
     position    |-> Origin,
     scale       |-> UnitScale,
     boundingBox |-> calculateBoundingBox(Origin, UnitScale),
     faces       |-> generateFaces(geometry, Origin, UnitScale),
     color       |-> getDefaultColor(type),
     children    |-> << >>,
     parents     |-> << >>]

setPosition(n, position) ==
    [n EXCEPT !.position    = position,
              !.boundingBox = calculateBoundingBox(position, n.scale),
              !.faces       = generateFaces(n.geometry, position, n.scale)]

setScale(n, scale) ==
    [n EXCEPT !.scale       = scale,
              !.boundingBox = calculateBoundingBox(n.position, scale),
              !.faces       = generateFaces(n.geometry, n.position, scale)]

addChild(n, childId) ==
    IF Includes(n.children, childId) THEN n
    ELSE [n EXCEPT !.children = Append(@, childId)]

addParent(n, parentId) ==
    IF Includes(n.parents, parentId) THEN n
    ELSE [n EXCEPT !.parents = Append(@, parentId)]

removeChild(n, childId) == [n EXCEPT !.children = Without(@, childId)]

removeParent(n, parentId) == [n EXCEPT !.parents = Without(@, parentId)]

\* Node.getFace: << face >> or << >> (undefined)
getFace(n, faceId) == SelectSeq(n.faces, LAMBDA f : f.id = faceId)

FaceIds(n) == {n.faces[i].id : i \in 1..Len(n.faces)}

-----------------------------------------------------------------------------
(* Connection: src/src/models/connection.ts *)

ConnectionPoint(nodeId, faceId) ==
    [nodeId |-> nodeId, faceId |-> faceId, anchor |-> << >>]

\* new Connection(id, type, source, target); the label is in visual.label
NewConnection(id, type, source, target, label) ==
    [id |-> id, type |-> type, source |-> source, target |-> target,
     label |-> label]

-----------------------------------------------------------------------------
(* Graph: src/unnamed/part_007, class Graph *)

\* Map.prototype.has / get / set / delete on a sequence of values keyed by .id
MapIndex(m, id) ==
    IF \E i \in 1..Len(m) : m[i].id = id
    THEN CHOOSE i \in 1..Len(m) : m[i].id = id
    ELSE 0

MapHas(m, id) == MapIndex(m, id) /= 0

MapGet(m, id) == m[MapIndex(m, id)]

MapSet(m, v) ==
    IF MapHas(m, v.id) THEN [m EXCEPT ![MapIndex(m, v.id)] = v]
    ELSE Append(m, v)

MapDelete(m, id) == SelectSeq(m, LAMBDA v : v.id /= id)

MapKeys(m) == {m[i].id : i \in 1..Len(m)}

\* Graph.addNode: this.nodes.set(node.id, node)
addNode(ns, node) == MapSet(ns, node)

\* Graph.removeNode, the nodes map after it: the removed node's own parents
\* and children lists say which other nodes are unlinked.
removeNodeNodes(ns, nodeId) ==
    IF ~MapHas(ns, nodeId) THEN ns
    ELSE LET node == MapGet(ns, nodeId)
             afterParents == [i \in 1..Len(ns) |->
                 IF Includes(node.parents, ns[i].id)
                 THEN removeChild(ns[i], nodeId) ELSE ns[i]]
             removed == MapGet(afterParents, nodeId)
             afterChildren == [i \in 1..Len(ns) |->
                 IF Includes(removed.children, afterParents[i].id)
                 THEN removeParent(afterParents[i], nodeId)
                 ELSE afterParents[i]]
         IN  MapDelete(afterChildren, nodeId)

\* Graph.removeNode, the connections map after it
removeNodeConnections(ns, cs, nodeId) ==
    IF ~MapHas(ns, nodeId) THEN cs
    ELSE SelectSeq(cs, LAMBDA c :
             ~(c.source.nodeId = nodeId \/ c.target.nodeId = nodeId))

\* Graph.addConnection throws when an endpoint is not in the node map
addConnectionThrows(ns, c) ==
    ~MapHas(ns, c.source.nodeId) \/ ~MapHas(ns, c.target.nodeId)

\* Graph.addConnection, the nodes map after it: sourceNode.addChild, then
\* targetNode.addParent (source and target may be the same object)
addConnectionNodes(ns, c) ==
    LET s  == MapIndex(ns, c.source.nodeId)
        n1 == [ns EXCEPT ![s] = addChild(@, c.target.nodeId)]
        t  == MapIndex(n1, c.target.nodeId)
    IN  [n1 EXCEPT ![t] = addParent(@, c.source.nodeId)]

\* Graph.addConnection, one endpoint's anchor: the face's center when the
\* faceId resolves, left as it was when it does not, the node's position
\* when there is no faceId and no anchor yet
addConnectionAnchor(ns, point) ==
    LET node == MapGet(ns, point.nodeId)
        face == getFace(node, point.faceId)
    IN  IF point.faceId /= ""
        THEN IF face /= << >> THEN << face[1].center >> ELSE point.anchor
        ELSE IF point.anchor = << >> THEN << node.position >>
             ELSE point.anchor

\* Graph.addConnection, the connections map after it
addConnectionConnections(ns, cs, c) ==
    MapSet(cs, [c EXCEPT
        !.source.anchor = addConnectionAnchor(ns, c.source),
        !.target.anchor = addConnectionAnchor(ns, c.target)])

\* Graph.removeConnection, the nodes map after it
removeConnectionNodes(ns, cs, connectionId) ==
    IF ~MapHas(cs, connectionId) THEN ns
    ELSE LET c == MapGet(cs, connectionId)
         IN  [i \in 1..Len(ns) |->
                LET a == IF ns[i].id = c.source.nodeId
                         THEN removeChild(ns[i], c.target.nodeId) ELSE ns[i]
                IN  IF ns[i].id = c.target.nodeId
                    THEN removeParent(a, c.source.nodeId) ELSE a]

\* Graph.removeConnection, the connections map after it
removeConnectionConnections(cs, connectionId) == MapDelete(cs, connectionId)

\* Graph.getRootNodes
getRootNodes(ns) == SelectSeq(ns, LAMBDA n : Len(n.parents) = 0)

\* a child that has been visited counts as closing a cycle
visitedHas(st, childId) == childId \in st.visited

\* hasCycleUtil: recursionStack.has(childId)
recursionStackHas(st, childId) == childId \in st.recursionStack

RECURSIVE hasCycleUtil(_, _, _)
RECURSIVE hasCycleChildren(_, _, _, _, _)
RECURSIVE hasCycleAfterChild(_, _, _, _, _)
\* Graph.hasCycleUtil; st is [visited, recursionStack, result], the two
\* sets being shared by all calls.  A return of true, and the return for an
\* id that is no node, leave the id on the recursion stack.
hasCycleUtil(ns, nodeId, st) ==
    IF ~MapHas(ns, nodeId)
    THEN [visited |-> st.visited \cup {nodeId},
          recursionStack |-> st.recursionStack \cup {nodeId}, result |-> FALSE]
    ELSE hasCycleChildren(ns, nodeId, MapGet(ns, nodeId).children, 1,
             [visited |-> st.visited \cup {nodeId},
              recursionStack |-> st.recursionStack \cup {nodeId},
              result |-> FALSE])

\* the loop "for (const childId of node.children)" from the k-th child on
hasCycleChildren(ns, nodeId, children, k, st) ==
    IF k > Len(children)
    THEN [st EXCEPT !.recursionStack = @ \ {nodeId}]
    ELSE IF children[k] \notin st.visited
    THEN hasCycleAfterChild(ns, nodeId, children, k,
                            hasCycleUtil(ns, children[k], st))
    ELSE IF recursionStackHas(st, children[k])
    THEN [st EXCEPT !.result = TRUE]
    ELSE hasCycleChildren(ns, nodeId, children, k + 1, st)

\* after the recursive call for the k-th child has returned r
hasCycleAfterChild(ns, nodeId, children, k, r) ==
    IF r.result THEN r ELSE hasCycleChildren(ns, nodeId, children, k + 1, r)

RECURSIVE hasCyclesFrom(_, _, _)
RECURSIVE hasCyclesAfter(_, _, _)
\* Graph.hasCycles: the loop over this.nodes.keys() from the k-th key on
hasCyclesFrom(ns, k, st) ==
    IF k > Len(ns) THEN FALSE
    ELSE IF ns[k].id \notin st.visited
    THEN hasCyclesAfter(ns, k, hasCycleUtil(ns, ns[k].id, st))
    ELSE hasCyclesFrom(ns, k + 1, st)

\* after hasCycleUtil for the k-th key has returned r
hasCyclesAfter(ns, k, r) ==
    IF r.result THEN TRUE ELSE hasCyclesFrom(ns, k + 1, r)

\* Graph.hasCycles
hasCycles(ns) ==
    hasCyclesFrom(ns, 1, [visited |-> {}, recursionStack |-> {}, result |-> FALSE])

\* Graph.toJSON, the part of the output format that fromJSON reads: the
\* values of the two maps in map order.  Written as JSON text and read back,
\* every field keeps its value and an undefined anchor stays undefined.
toJSON(ns, cs) == [nodes |-> ns, connections |-> cs]

\* Graph.fromJSON, one node: the constructor builds bounding box and faces
\* for the origin and the unit scale; transform, visual, children and parents
\* are then assigned as fields, which regenerates nothing
fromJSONNode(nodeData) ==
    [NewNode(nodeData.id, nodeData.type, nodeData.name, nodeData.geometry)
        EXCEPT !.position = nodeData.position,
               !.scale    = nodeData.scale,
               !.color    = nodeData.color,
               !.children = nodeData.children,
               !.parents  = nodeData.parents]

RECURSIVE fromJSONNodes(_, _, _)
\* Graph.fromJSON: the loop over data.nodes from k on
fromJSONNodes(data, k, ns) ==
    IF k > Len(data) THEN ns
    ELSE fromJSONNodes(data, k + 1, addNode(ns, fromJSONNode(data[k])))

RECURSIVE fromJSONConnections(_, _, _)
\* Graph.fromJSON: the loop over data.connections from k on, g = <<nodes,
\* connections>>; source and target are passed on with the anchors they hold
fromJSONConnections(data, k, g) ==
    IF k > Len(data) THEN g
    ELSE LET c == NewConnection(data[k].id, data[k].type, data[k].source,
                                data[k].target, data[k].label)
         IN  fromJSONConnections(data, k + 1,
                 <<addConnectionNodes(g[1], c),
                   addConnectionConnections(g[1], g[2], c)>>)

\* Graph.fromJSON(data): <<nodes, connections>> of the new graph
fromJSON(data) ==
    fromJSONConnections(data.connections, 1,
        <<fromJSONNodes(data.nodes, 1, << >>), << >>>>)

-----------------------------------------------------------------------------
(* ASTBuilder: src/src/parser/ast-builder.ts *)

\* a / b for b > 0, rounded toward zero
Div(a, b) == IF a >= 0 THEN a \div b ELSE -((-a) \div b)

RECURSIVE SqrtFrom(_, _)
SqrtFrom(n, r) ==
    LET q == (r + n \div r) \div 2
    IN  IF q >= r THEN r ELSE SqrtFrom(n, q)

\* Math.sqrt, rounded down
Sqrt(n) == IF n <= 0 THEN 0 ELSE SqrtFrom(n, n)

\* Math.ceil(Math.sqrt(n))
CeilSqrt(n) == IF Sqrt(n) * Sqrt(n) = n THEN Sqrt(n) ELSE Sqrt(n) + 1

\* Math.cos and Math.sin of whole degrees, in thousandths, for the angles
\* index / n * 2*PI with n in 1..6
CosDeg(d) ==
    CASE d = 0 -> 1000 [] d = 60 -> 500 [] d = 72 -> 309 [] d = 90 -> 0
      [] d = 120 -> -500 [] d = 144 -> -809 [] d = 180 -> -1000
      [] d = 216 -> -809 [] d = 240 -> -500 [] d = 270 -> 0
      [] d = 288 -> 309 [] d = 300 -> 500

SinDeg(d) ==
    CASE d = 0 -> 0 [] d = 60 -> 866 [] d = 72 -> 951 [] d = 90 -> 1000
      [] d = 120 -> 866 [] d = 144 -> 588 [] d = 180 -> 0
      [] d = 216 -> -588 [] d = 240 -> -866 [] d = 270 -> -1000
      [] d = 288 -> -951 [] d = 300 -> -866

\* A property value as the builder reads it: << >> when the key is absent,
\* else << [kind, parts] >> with kind "array" (a JSON array), "string" (the
\* text split at commas) or "number"; each part is << v >> when parseFloat
\* reads the number v from it and << >> when parseFloat gives NaN.
PropValue(kind, parts) == << [kind |-> kind, parts |-> parts] >>

NoProps == [position |-> << >>, scale |-> << >>, color |-> ""]

\* parseFloat(part) || 0
NumberOrZero(part) == IF part = << >> THEN 0 ELSE part[1]

\* ASTBuilder.parsePosition
parsePosition(positionData) ==
    IF positionData.kind \in {"array", "string"} /\ Len(positionData.parts) >= 3
    THEN Vec(NumberOrZero(positionData.parts[1]),
             NumberOrZero(positionData.parts[2]),
             NumberOrZero(positionData.parts[3]))
    ELSE Origin

\* parseFloat(part): the number read, or NaN
NumberOrNaN(part) == IF part = << >> THEN NaN ELSE part[1]

\* ASTBuilder.parseScale throws: scaleStr.split is a method of strings only
parseScaleThrows(scaleData) == scaleData.kind /= "string"

\* ASTBuilder.parseScale on a string; the components are taken as parseFloat
\* gives them, with no test of their sign or of NaN
parseScale(scaleData) ==
    LET parts == scaleData.parts
    IN  IF Len(parts) = 1
        THEN Vec(NumberOrNaN(parts[1]), NumberOrNaN(parts[1]), NumberOrNaN(parts[1]))
        ELSE IF Len(parts) = 3
        THEN Vec(NumberOrNaN(parts[1]), NumberOrNaN(parts[2]), NumberOrNaN(parts[3]))
        ELSE UnitScale

\* this.config.visual.colors[type] || '#808080'; "" stands for no entry
themeColor(colors, type) ==
    IF type \in DOMAIN colors /\ colors[type] /= "" THEN colors[type]
    ELSE "#808080"

\* ASTBuilder.createNode throws
createNodeThrows(parsedNode) ==
    /\ parsedNode.properties.scale /= << >>
    /\ parseScaleThrows(parsedNode.properties.scale[1])

\* createNode, "Apply theme colors": the test is on the color the node
\* holds, which the Node constructor has set to getDefaultColor(type)
applyThemeColor(n, colors) ==
    IF n.color = "" THEN [n EXCEPT !.color = themeColor(colors, n.type)] ELSE n

\* createNode, "Apply custom properties": color, scale, position
applyProperties(n, props) ==
    LET n1 == IF props.color /= "" THEN [n EXCEPT !.color = props.color] ELSE n
        n2 == IF props.scale /= << >>
              THEN setScale(n1, parseScale(props.scale[1])) ELSE n1
    IN  IF props.position /= << >>
        THEN setPosition(n2, parsePosition(props.position[1])) ELSE n2

\* ASTBuilder.createNode with this.config.visual.colors = colors
createNode(parsedNode, colors) ==
    applyThemeColor(
        applyProperties(NewNode(parsedNode.id, parsedNode.type, parsedNode.name,
                                parsedNode.geometry),
                        parsedNode.properties),
        colors)

\* DEFAULT_CONFIG.visual.colors
DefaultColors == [t \in NodeTypes |-> getDefaultColor(t)]

\* DEFAULT_CONFIG: layout.algorithm, layout.nodeSpacing, visual.colors
DefaultConfig == [algorithm |-> "hierarchical", nodeSpacing |-> 2 * Unit,
                  colors |-> DefaultColors]

\* ASTBuilder.createConnection returns null
createConnectionIsNull(parsedConnection, ns) ==
    ~MapHas(ns, parsedConnection.source.nodeId)
    \/ ~MapHas(ns, parsedConnection.target.nodeId)

\* a connection of the two nodes that names no face of either
createConnectionFaceless(parsedConnection) ==
    NewConnection(parsedConnection.id, parsedConnection.type,
        ConnectionPoint(parsedConnection.source.nodeId, ""),
        ConnectionPoint(parsedConnection.target.nodeId, ""),
        parsedConnection.label)

\* ASTBuilder.createConnection
createConnection(parsedConnection) ==
    NewConnection(parsedConnection.id, parsedConnection.type,
        ConnectionPoint(parsedConnection.source.nodeId,
                        parsedConnection.source.faceId),
        ConnectionPoint(parsedConnection.target.nodeId,
                        parsedConnection.target.faceId),
        parsedConnection.label)

RECURSIVE buildNodes(_, _, _, _)
\* build(), "Create nodes": the node map after the parsed nodes from k on
buildNodes(pns, k, ns, colors) ==
    IF k > Len(pns) THEN ns
    ELSE buildNodes(pns, k + 1, addNode(ns, createNode(pns[k], colors)), colors)

RECURSIVE buildConnections(_, _, _)
\* build(), "Create connections": <<nodes, connections>> after the parsed
\* connections from k on
buildConnections(pcs, k, g) ==
    IF k > Len(pcs) THEN g
    ELSE IF createConnectionIsNull(pcs[k], g[1])
         THEN buildConnections(pcs, k + 1, g)
         ELSE LET c == createConnection(pcs[k])
              IN  buildConnections(pcs, k + 1,
                      <<addConnectionNodes(g[1], c),
                        addConnectionConnections(g[1], g[2], c)>>)

\* applyLayout: the ids of the nodes that are not at the origin
nodesWithCustomPositions(ns) ==
    {ns[i].id : i \in {j \in 1..Len(ns) : ns[j].position /= Origin}}

\* node.setPosition(position) on the node with this id
MoveNode(ns, id, position) ==
    [ns EXCEPT ![MapIndex(ns, id)] = setPosition(@, position)]

\* Array.from(graph.nodes.values()).filter(not pinned), as ids
Moveable(ns, pinned) ==
    LET free == SelectSeq(ns, LAMBDA n : n.id \notin pinned)
    IN  [i \in 1..Len(free) |-> free[i].id]

\* layers.get(layer).push(node); layer keys are first set in the order 0, 1, ..
PushLayer(layers, layer, id) ==
    IF layer + 1 > Len(layers) THEN Append(layers, <<id>>)
    ELSE [layers EXCEPT ![layer + 1] = Append(@, id)]

RECURSIVE assignToLayers(_, _, _, _)
RECURSIVE assignChildren(_, _, _, _, _)
\* ASTBuilder.assignToLayers; st is [layers, visited]
assignToLayers(ns, id, layer, st) ==
    IF id \in st.visited THEN st
    ELSE assignChildren(ns, MapGet(ns, id).children, 1, layer + 1,
             [layers  |-> PushLayer(st.layers, layer, id),
              visited |-> st.visited \cup {id}])

\* the loop "for (const childId of node.children)" from the k-th child on
assignChildren(ns, children, k, layer, st) ==
    IF k > Len(children) THEN st
    ELSE assignChildren(ns, children, k + 1, layer,
             IF MapHas(ns, children[k])
             THEN assignToLayers(ns, children[k], layer, st) ELSE st)

RECURSIVE assignRoots(_, _, _, _)
\* the loop over rootNodes: each root starts with a new visited set
assignRoots(ns, roots, k, layers) ==
    IF k > Len(roots) THEN layers
    ELSE assignRoots(ns, roots, k + 1,
             assignToLayers(ns, roots[k].id, 0,
                 [layers |-> layers, visited |-> {}]).layers)

hierarchicalLayers(ns) == assignRoots(ns, getRootNodes(ns), 1, << >>)

MinSpacing == 30 * Unit

RECURSIVE placeLayer(_, _, _, _, _, _)
\* nodesToPosition.forEach from index k (0-based, as in the code) on
placeLayer(ns, ids, k, startX, effectiveSpacing, y) ==
    IF k >= Len(ids) THEN ns
    ELSE placeLayer(MoveNode(ns, ids[k + 1],
                        Vec(startX + k * effectiveSpacing, y, 0)),
                    ids, k + 1, startX, effectiveSpacing, y)

RECURSIVE placeLayers(_, _, _, _, _)
\* "Position nodes by layer", from layer index l (0-based) on
placeLayers(ns, layers, l, spacing, pinned) ==
    IF l >= Len(layers) THEN ns
    ELSE LET y == l * spacing * 2
             nodesToPosition == SelectSeq(layers[l + 1], LAMBDA id : id \notin pinned)
             effectiveSpacing == Max(spacing, MinSpacing)
             totalWidth == (Len(nodesToPosition) - 1) * effectiveSpacing
             startX == -Half(totalWidth)
         IN  placeLayers(
                 IF Len(nodesToPosition) = 0 THEN ns
                 ELSE placeLayer(ns, nodesToPosition, 0, startX,
                                 effectiveSpacing, y),
                 layers, l + 1, spacing, pinned)

\* ASTBuilder.applyHierarchicalLayout
applyHierarchicalLayout(ns, nodeSpacing, pinned) ==
    placeLayers(ns, hierarchicalLayers(ns), 0, nodeSpacing, pinned)

RECURSIVE placeGrid(_, _, _, _, _)
\* nodes.forEach of applyGridLayout from index k (0-based) on
placeGrid(ns, ids, k, gridSize, spacing) ==
    IF k >= Len(ids) THEN ns
    ELSE LET row == k \div gridSize
             col == k % gridSize
         IN  placeGrid(MoveNode(ns, ids[k + 1],
                           Vec(Half((2 * col - gridSize) * spacing), 0,
                               Half((2 * row - gridSize) * spacing))),
                       ids, k + 1, gridSize, spacing)

\* ASTBuilder.applyGridLayout
applyGridLayout(ns, nodeSpacing, pinned) ==
    LET ids == Moveable(ns, pinned)
    IN  IF Len(ids) = 0 THEN ns
        ELSE placeGrid(ns, ids, 0, CeilSqrt(Len(ids)), Max(nodeSpacing, MinSpacing))

\* Math.max((spacing * n) / (Math.PI * 2), spacing * 2)
circleRadius(spacing, n) == Max((spacing * n * 1000) \div 6283, spacing * 2)

\* the point at angle (index / n) * 2*PI on the circle
circlePoint(index, n, radius) ==
    Vec(Div(CosDeg((360 * index) \div n) * radius, 1000), 0,
        Div(SinDeg((360 * index) \div n) * radius, 1000))

RECURSIVE placeCircle(_, _, _, _)
\* nodes.forEach of the circular placement from index k (0-based) on
placeCircle(ns, ids, k, radius) ==
    IF k >= Len(ids) THEN ns
    ELSE placeCircle(MoveNode(ns, ids[k + 1], circlePoint(k, Len(ids), radius)),
                     ids, k + 1, radius)

\* ASTBuilder.applyCircularLayout
applyCircularLayout(ns, nodeSpacing, pinned) ==
    LET ids == Moveable(ns, pinned)
        spacing == Max(nodeSpacing, MinSpacing)
    IN  IF Len(ids) = 0 THEN ns
        ELSE placeCircle(ns, ids, 0, circleRadius(spacing, Len(ids)))

\* Math.sqrt(dx*dx + dy*dy + dz*dz) || 0.1
distanceOr(dx, dy, dz) ==
    LET d == Sqrt(dx * dx + dy * dy + dz * dz)
    IN  IF d = 0 THEN Unit \div 10 ELSE d

\* ASTBuilder.applyRepulsiveForce(node1, node2, 1.0):
\* force = strength / distance^2, f = (d / distance) * force
applyRepulsiveForce(ns, id1, id2) ==
    LET pos1 == MapGet(ns, id1).position
        pos2 == MapGet(ns, id2).position
        dx == pos1.x - pos2.x
        dy == pos1.y - pos2.y
        dz == pos1.z - pos2.z
        distance == distanceOr(dx, dy, dz)
        force == (Unit * Unit * Unit) \div (distance * distance)
        fx == Div(dx * force, distance)
        fy == Div(dy * force, distance)
        fz == Div(dz * force, distance)
        moved1 == MoveNode(ns, id1, Vec(pos1.x + fx, pos1.y + fy, pos1.z + fz))
    IN  MoveNode(moved1, id2, Vec(pos2.x - fx, pos2.y - fy, pos2.z - fz))

\* ASTBuilder.applyAttractiveForce(node1, node2, 0.1):
\* force = strength * distance, f = (d / distance) * force * 0.1.
\* Both nodes are moved, whether or not they are pinned.
applyAttractiveForce(ns, id1, id2) ==
    LET pos1 == MapGet(ns, id1).position
        pos2 == MapGet(ns, id2).position
        dx == pos2.x - pos1.x
        dy == pos2.y - pos1.y
        dz == pos2.z - pos1.z
        distance == distanceOr(dx, dy, dz)
        force == Div(distance, 10)
        fx == Div(Div(dx * force, distance), 10)
        fy == Div(Div(dy * force, distance), 10)
        fz == Div(Div(dz * force, distance), 10)
        moved1 == MoveNode(ns, id1, Vec(pos1.x + fx, pos1.y + fy, pos1.z + fz))
    IN  MoveNode(moved1, id2, Vec(pos2.x - fx, pos2.y - fy, pos2.z - fz))

RECURSIVE repelPairs(_, _, _, _)
\* the loops over j and k > j of one iteration, from the pair (j, k) on
repelPairs(ns, ids, j, k) ==
    IF j > Len(ids) THEN ns
    ELSE IF k > Len(ids) THEN repelPairs(ns, ids, j + 1, j + 2)
    ELSE repelPairs(applyRepulsiveForce(ns, ids[j], ids[k]), ids, j, k + 1)

RECURSIVE attractConnected(_, _, _, _)
\* the loop over graph.connections of one iteration, from connection k on
attractConnected(ns, cs, k, pinned) ==
    IF k > Len(cs) THEN ns
    ELSE LET s == cs[k].source.nodeId
             t == cs[k].target.nodeId
         IN  attractConnected(
                 IF MapHas(ns, s) /\ MapHas(ns, t)
                    /\ (s \notin pinned \/ t \notin pinned)
                 THEN applyAttractiveForce(ns, s, t) ELSE ns,
                 cs, k + 1, pinned)

RECURSIVE dampNodes(_, _, _)
\* "Apply damping": position * 0.9 for the moveable nodes from k on
dampNodes(ns, ids, k) ==
    IF k > Len(ids) THEN ns
    ELSE LET pos == MapGet(ns, ids[k]).position
         IN  dampNodes(MoveNode(ns, ids[k],
                           Vec(Div(pos.x * 9, 10), Div(pos.y * 9, 10),
                               Div(pos.z * 9, 10))),
                       ids, k + 1)

Iterations == 50

RECURSIVE simulate(_, _, _, _, _)
\* the rounds i .. Iterations - 1 of the force simulation (the test on Len(ns)
\* only makes TLC evaluate a round's result before it starts the next round)
simulate(ns, cs, ids, pinned, i) ==
    IF i >= Iterations \/ Len(ns) = 0 THEN ns
    ELSE simulate(dampNodes(attractConnected(repelPairs(ns, ids, 1, 2),
                                             cs, 1, pinned),
                            ids, 1),
                  cs, ids, pinned, i + 1)

\* ASTBuilder.applyForceDirectedLayout
applyForceDirectedLayout(ns, cs, nodeSpacing, pinned) ==
    LET ids == Moveable(ns, pinned)
        spacing == Max(nodeSpacing, MinSpacing)
    IN  IF Len(ids) = 0 THEN ns
        ELSE simulate(placeCircle(ns, ids, 0, circleRadius(spacing, Len(ids))),
                      cs, ids, pinned, 0)

Algorithms == {"hierarchical", "force-directed", "circular", "grid"}

\* ASTBuilder.applyLayout
applyLayout(ns, cs, layout) ==
    LET pinned == nodesWithCustomPositions(ns)
    IN  CASE layout.algorithm = "hierarchical" ->
                applyHierarchicalLayout(ns, layout.nodeSpacing, pinned)
          [] layout.algorithm = "force-directed" ->
                applyForceDirectedLayout(ns, cs, layout.nodeSpacing, pinned)
          [] layout.algorithm = "circular" ->
                applyCircularLayout(ns, layout.nodeSpacing, pinned)
          [] layout.algorithm = "grid" ->
                applyGridLayout(ns, layout.nodeSpacing, pinned)
          [] OTHER ->
                applyHierarchicalLayout(ns, layout.nodeSpacing, pinned)

\* updateConnectionAnchors, one endpoint: the face's center when the faceId
\* resolves, left as it was when it does not, the node's position when there
\* is no faceId
updateAnchor(ns, point) ==
    LET node == MapGet(ns, point.nodeId)
        face == getFace(node, point.faceId)
    IN  IF point.faceId /= ""
        THEN IF face /= << >> THEN << face[1].center >> ELSE point.anchor
        ELSE << node.position >>

\* ASTBuilder.updateConnectionAnchors
updateConnectionAnchors(ns, cs) ==
    [k \in 1..Len(cs) |->
        IF MapHas(ns, cs[k].source.nodeId) /\ MapHas(ns, cs[k].target.nodeId)
        THEN [cs[k] EXCEPT !.source.anchor = updateAnchor(ns, cs[k].source),
                           !.target.anchor = updateAnchor(ns, cs[k].target)]
        ELSE cs[k]]

-----------------------------------------------------------------------------
(* MermaidParser: src/unnamed/part_011 *)
(* A string is the sequence of its characters, each a string of length 1. *)

UpperCase == <<"A", "B", "C", "D", "E", "F", "G", "H", "I", "J", "K", "L", "M", "N", "O", "P", "Q", "R", "S", "T", "U", "V", "W", "X", "Y", "Z">>

LowerCase == <<"a", "b", "c", "d", "e", "f", "g", "h", "i", "j", "k", "l", "m", "n", "o", "p", "q", "r", "s", "t", "u", "v", "w", "x", "y", "z">>

Digits == {"0", "1", "2", "3", "4", "5", "6", "7", "8", "9"}

\* the character class [A-Za-z0-9_]
IdChars == {UpperCase[i] : i \in 1..26} \cup {LowerCase[i] : i \in 1..26}
           \cup Digits \cup {"_"}

\* the character class \s, for the characters an input line can hold
Whitespace == {" ", "\t"}

\* String.prototype.toLowerCase
ToLower(s) ==
    [i \in 1..Len(s) |->
        IF \E k \in 1..26 : UpperCase[k] = s[i]
        THEN LowerCase[CHOOSE k \in 1..26 : UpperCase[k] = s[i]]
        ELSE s[i]]

\* String.prototype.trim
Trim(s) ==
    LET keep == {i \in 1..Len(s) : s[i] \notin Whitespace}
    IN  IF keep = {} THEN << >>
        ELSE SubSeq(s, CHOOSE i \in keep : \A j \in keep : i <= j,
                       CHOOSE i \in keep : \A j \in keep : i >= j)

\* String.prototype.startsWith
StartsWith(s, prefix) ==
    Len(s) >= Len(prefix) /\ SubSeq(s, 1, Len(prefix)) = prefix

\* String.prototype.endsWith
EndsWith(s, suffix) ==
    Len(s) >= Len(suffix) /\ SubSeq(s, Len(s) - Len(suffix) + 1, Len(s)) = suffix

\* String.prototype.includes
StrIncludes(s, sub) ==
    \E i \in 1..(Len(s) - Len(sub) + 1) : SubSeq(s, i, i + Len(sub) - 1) = sub

\* the first index >= from where s holds a character of cs, or 0
FirstOf(s, from, cs) ==
    LET hits == {i \in from..Len(s) : s[i] \in cs}
    IN  IF hits = {} THEN 0 ELSE CHOOSE i \in hits : \A j \in hits : i <= j

\* String.prototype.replace(/['"]/g, '')
StripQuotes(s) == SelectSeq(s, LAMBDA c : c \notin {"'", "\""})

RECURSIVE SplitFrom(_, _, _)
\* the pieces of s from index from on, cut at the character sep
SplitFrom(s, from, sep) ==
    LET cut == FirstOf(s, from, {sep})
    IN  IF cut = 0 THEN << SubSeq(s, from, Len(s)) >>
        ELSE << SubSeq(s, from, cut - 1) >> \o SplitFrom(s, cut + 1, sep)

\* String.prototype.split(sep) for a one-character separator
Split(s, sep) == SplitFrom(s, 1, sep)

\* the length of the longest prefix of s made of [A-Za-z0-9_]
IdRun(s) ==
    LET stop == {i \in 1..Len(s) : s[i] \notin IdChars}
    IN  IF stop = {} THEN Len(s)
        ELSE (CHOOSE i \in stop : \A j \in stop : i <= j) - 1

\* MermaidParser.isNodeDefinition: /^[A-Za-z0-9_]+[\[\{\(<]/
isNodeDefinition(line) ==
    LET k == IdRun(line)
    IN  k >= 1 /\ k < Len(line) /\ line[k + 1] \in {"[", "{", "(", "<"}

\* MermaidParser.isConnectionDefinition
isConnectionDefinition(line) ==
    \/ StrIncludes(line, <<"-", "-", ">">>)
    \/ StrIncludes(line, <<"-", "-", "-">>)
    \/ StrIncludes(line, <<"-", ".", "-", ">">>)
    \/ StrIncludes(line, <<"=", "=">>)

\* One pattern of parseNodeDefinition,
\*     /^([A-Za-z0-9_]+) open ([^:]+) : \s* ([^c]+) close/
\* where c is the first character of close: << >> when the line does not
\* match, else << [id, typeStr, name] >>.  The id is the whole run of id
\* characters (open holds none); [^:]+ ends at the first colon; [^c]+ ends at
\* the first c, where close has to follow.
MatchNode(line, open, close) ==
    LET k     == IdRun(line)
        p     == k + Len(open) + 1
        colon == FirstOf(line, p, {":"})
        stop  == FirstOf(line, colon + 1, {close[1]})
    IN  IF /\ k >= 1
           /\ k + Len(open) <= Len(line)
           /\ SubSeq(line, k + 1, k + Len(open)) = open
           /\ colon > p
           /\ stop > colon + 1
           /\ stop + Len(close) - 1 <= Len(line)
           /\ SubSeq(line, stop, stop + Len(close) - 1) = close
        THEN << [id      |-> SubSeq(line, 1, k),
                 typeStr |-> SubSeq(line, p, colon - 1),
                 name    |-> SubSeq(line, colon + 1, stop - 1)] >>
        ELSE << >>

\* the delimiters of the five patterns, in the order the code tries them
NodePatterns ==
    << [open |-> <<"[">>,      close |-> <<"]">>],
       [open |-> <<"{">>,      close |-> <<"}">>],
       [open |-> <<"(", "(">>, close |-> <<")", ")">>],
       [open |-> <<"<">>,      close |-> <<">">>],
       [open |-> <<"[", "[">>, close |-> <<"]", "]">>] >>

\* the first pattern that matches the line, or 0
FirstPattern(line) ==
    LET hits == {i \in 1..Len(NodePatterns) :
                    MatchNode(line, NodePatterns[i].open, NodePatterns[i].close)
                        /= << >>}
    IN  IF hits = {} THEN 0 ELSE CHOOSE i \in hits : \A j \in hits : i <= j


\* MermaidParser.parseNodeType
parseNodeType(typeStr) ==
    LET type == Trim(ToLower(typeStr))
    IN  CASE type = <<"f", "u", "n", "c", "t", "i", "o", "n">> -> "function"
          [] type = <<"f", "u", "n", "c">> -> "function"
          [] type = <<"c", "o", "m", "p", "o", "n", "e", "n", "t">> -> "component"
          [] type = <<"c", "o", "m", "p">> -> "component"
          [] type = <<"d", "a", "t", "a", "p", "a", "t", "h">> -> "datapath"
          [] type = <<"d", "a", "t", "a">> -> "datapath"
          [] type = <<"m", "o", "d", "u", "l", "e">> -> "module"
          [] type = <<"m", "o", "d">> -> "module"
          [] type = <<"c", "l", "a", "s", "s">> -> "class"
          [] type = <<"i", "n", "t", "e", "r", "f", "a", "c", "e">> -> "interface"
          [] type = <<"i", "f", "a", "c", "e">> -> "interface"
          [] type = <<"v", "a", "r", "i", "a", "b", "l", "e">> -> "variable"
          [] type = <<"v", "a", "r">> -> "variable"
          [] type = <<"c", "o", "n", "s", "t", "a", "n", "t">> -> "constant"
          [] type = <<"c", "o", "n", "s", "t">> -> "constant"
          [] OTHER -> "component"


\* MermaidParser.parseGeometry: decided by the characters the whole line holds
parseGeometry(line) ==
    IF StrIncludes(line, <<"[">>) /\ StrIncludes(line, <<"]">>) THEN "cube"
    ELSE IF StrIncludes(line, <<"{">>) /\ StrIncludes(line, <<"}">>)
         THEN "dodecahedron"
    ELSE IF StrIncludes(line, <<"<">>) /\ StrIncludes(line, <<">">>) THEN "plane"
    ELSE "cube"

\* properties[key] = value on a sequence of [key, value] pairs
PropSet(props, key, value) ==
    IF \E i \in 1..Len(props) : props[i].key = key
    THEN [i \in 1..Len(props) |->
             IF props[i].key = key THEN [key |-> key, value |-> value]
             ELSE props[i]]
    ELSE Append(props, [key |-> key, value |-> value])

\* a property value: kind "string", "number" or "array", and its text
PropText(kind, text) == [kind |-> kind, text |-> text]

RECURSIVE parsePairs(_, _, _)
\* the loop of parseProperties over the pairs from k on
parsePairs(pairs, k, props) ==
    IF k > Len(pairs) THEN props
    ELSE LET parts == Split(Trim(pairs[k]), ":")
             key   == Trim(parts[1])
             value == IF Len(parts) >= 2 THEN Trim(parts[2]) ELSE << >>
         IN  parsePairs(pairs, k + 1,
                 IF key /= << >> /\ value /= << >>
                 THEN PropSet(props, key, PropText("string", StripQuotes(value)))
                 ELSE props)

\* MermaidParser.parseProperties
parseProperties(propertiesStr) == parsePairs(Split(propertiesStr, ","), 1, << >>)

\* line.match(/\s*\{(.+)\}\s*$/) on a trimmed line: << >> when there is no
\* match, else << group 1 >>: from the first "{" that has a character
\* between it and the "}" that ends the line
inlinePropsMatch(line) ==
    LET open == FirstOf(line, 1, {"{"})
    IN  IF Len(line) >= 3 /\ line[Len(line)] = "}"
           /\ open /= 0 /\ open <= Len(line) - 2
        THEN << SubSeq(line, open + 1, Len(line) - 1) >>
        ELSE << >>

\* !isNaN(Number(text)) for texts of digits, sign and decimal point: the
\* empty text converts to 0
IsNumberText(text) ==
    LET t == Trim(text)
        body == IF t /= << >> /\ t[1] \in {"-", "+"} THEN Tail(t) ELSE t
        dots == {i \in 1..Len(body) : body[i] = "."}
    IN  \/ t = << >>
        \/ /\ \E i \in 1..Len(body) : body[i] \in Digits
           /\ \A i \in 1..Len(body) : body[i] \in Digits \cup {"."}
           /\ Cardinality(dots) <= 1

\* the text is a JSON number: -? digits (. digits)?, no leading zero
IsJsonNumber(t) ==
    LET body == IF t /= << >> /\ t[1] = "-" THEN Tail(t) ELSE t
        dot  == FirstOf(body, 1, {"."})
        int  == IF dot = 0 THEN body ELSE SubSeq(body, 1, dot - 1)
        frac == IF dot = 0 THEN <<"0">> ELSE SubSeq(body, dot + 1, Len(body))
    IN  /\ int /= << >> /\ frac /= << >>
        /\ \A i \in 1..Len(int) : int[i] \in Digits
        /\ \A i \in 1..Len(frac) : frac[i] \in Digits
        /\ (Len(int) > 1 => int[1] /= "0")

\* JSON.parse succeeds on the text: an array of numbers, [n, n, ...] (the
\* quotes of any string element were removed before)
IsJsonArrayText(text) ==
    /\ Len(text) >= 2 /\ text[1] = "[" /\ text[Len(text)] = "]"
    /\ LET inner  == SubSeq(text, 2, Len(text) - 1)
           pieces == Split(inner, ",")
       IN  \/ Trim(inner) = << >>
           \/ \A i \in 1..Len(pieces) : IsJsonNumber(Trim(pieces[i]))

RECURSIVE blockFrom(_, _, _)
\* The while loop of parseMultiLineProperties with the cursor at line index
\* cur (0-based): [props, cursor, threw].  A value that converts to a number
\* becomes a Number, and parsedValue.startsWith is then not a function: the
\* call throws a TypeError, which parse does not catch.
blockFrom(ls, cur, props) ==
    IF cur >= Len(ls) THEN [props |-> props, cursor |-> cur, threw |-> FALSE]
    ELSE LET line  == Trim(ls[cur + 1])
             colon == FirstOf(line, 1, {":"})
             key   == SubSeq(line, 1, colon - 1)
             value == Trim(SubSeq(line, colon + 1, Len(line)))
             text  == StripQuotes(value)
         IN  IF line = <<"}">>
             THEN [props |-> props, cursor |-> cur, threw |-> FALSE]
             ELSE IF colon /= 0 /\ key /= << >> /\ value /= << >>
             THEN IF IsNumberText(text)
                  THEN [props |-> props, cursor |-> cur, threw |-> TRUE]
                  ELSE blockFrom(ls, cur + 1,
                           PropSet(props, Trim(key),
                               IF text /= << >> /\ text[1] = "["
                                  /\ text[Len(text)] = "]" /\ IsJsonArrayText(text)
                               THEN PropText("array", text)
                               ELSE PropText("string", text)))
             ELSE blockFrom(ls, cur + 1, props)

\* a block reader that hands the cursor back two lines before the declaration
parseMultiLinePropertiesRewinding(ls, cur) ==
    [props |-> << >>, cursor |-> cur - 2, threw |-> FALSE]

\* MermaidParser.parseMultiLineProperties with this.currentLine = cur
parseMultiLineProperties(ls, cur) ==
    IF cur + 1 < Len(ls) /\ Trim(ls[cur + 2]) = <<"{">>
    THEN blockFrom(ls, cur + 2, << >>)
    ELSE [props |-> << >>, cursor |-> cur, threw |-> FALSE]

\* properties.description
PropGet(props, key) ==
    IF \E i \in 1..Len(props) : props[i].key = key
    THEN << (CHOOSE p \in {props[i] : i \in 1..Len(props)} : p.key = key).value >>
    ELSE << >>

\* MermaidParser.parseNodeDefinition with this.currentLine = cur:
\* [node, cursor, threw], node being << >> for null
parseNodeDefinition(ls, cur) ==
    LET line == ls[cur + 1]
        i    == FirstPattern(line)
        m    == MatchNode(line, NodePatterns[i].open, NodePatterns[i].close)[1]
        inl  == inlinePropsMatch(line)
        blk  == IF inl /= << >>
                THEN [props |-> parseProperties(inl[1]), cursor |-> cur,
                      threw |-> FALSE]
                ELSE parseMultiLineProperties(ls, cur)
    IN  IF i = 0 THEN [node |-> << >>, cursor |-> cur, threw |-> FALSE]
        ELSE [node |-> << [id          |-> m.id,
                           type        |-> parseNodeType(m.typeStr),
                           name        |-> Trim(m.name),
                           geometry    |-> parseGeometry(line),
                           description |-> PropGet(blk.props, <<"d", "e", "s", "c", "r", "i", "p", "t", "i", "o", "n">>),
                           properties  |-> blk.props] >>,
              cursor |-> blk.cursor,
              threw  |-> blk.threw]

\* the title of a graph declaration, /^(graph3d|ast3d)\s+(.+)/: << >> when
\* the line does not match
graphTitle(line) ==
    LET kw   == IF StartsWith(line, <<"g", "r", "a", "p", "h", "3", "d">>) THEN 7 ELSE 5
        rest == SubSeq(line, kw + 1, Len(line))
    IN  IF rest /= << >> /\ rest[1] \in Whitespace /\ Trim(rest) /= << >>
        THEN << StripQuotes(SubSeq(rest, FirstOf(rest, 1,
                    {rest[j] : j \in 1..Len(rest)} \ Whitespace), Len(rest))) >>
        ELSE << >>

\* the fields as they are when parse is called a second time
keptFields == [nodes |-> pnodes, connections |-> pconns]

\* MermaidParser.reset: the fields it leaves.  connectionIdCounter is the
\* number of connections pushed since reset, which clears both.
reset == [nodes |-> << >>, connections |-> << >>]

IsComment(line) == StartsWith(line, <<"%", "%">>) \/ StartsWith(line, <<"/", "/">>)

IsGraphDecl(line) ==
    StartsWith(line, <<"g", "r", "a", "p", "h", "3", "d">>) \/ StartsWith(line, <<"a", "s", "t", "3", "d">>)

IsTitle(line) == StartsWith(line, <<"t", "i", "t", "l", "e", ":">>)

IsDescription(line) == StartsWith(line, <<"d", "e", "s", "c", "r", "i", "p", "t", "i", "o", "n", ":">>)

\* the test that guards "Parse metadata"
IsMetadata(line) ==
    /\ StrIncludes(line, <<":">>)
    /\ ~StrIncludes(line, <<"-", "-", ">">>)
    /\ ~StrIncludes(line, <<"-", "-", "-">>)

\* the length of the run of [A-Za-z0-9_] that starts at index from
IdRunFrom(s, from) ==
    LET stop == {i \in from..Len(s) : s[i] \notin IdChars}
    IN  IF from > Len(s) THEN 0
        ELSE IF stop = {} THEN Len(s) - from + 1
        ELSE (CHOOSE i \in stop : \A j \in stop : i <= j) - from

\* \s* from index from on: the first index that holds no whitespace
AfterSpaces(s, from) ==
    LET stop == {i \in from..Len(s) : s[i] \notin Whitespace}
    IN  IF stop = {} THEN Max(from, Len(s) + 1)
        ELSE CHOOSE i \in stop : \A j \in stop : i <= j

\* ([A-Za-z0-9_]+)(?:@([A-Za-z0-9_]+))? at index from: the node id, the face
\* id (<< >> when the group does not take part) and the index after them
EndpointAt(s, from) ==
    LET k    == IdRunFrom(s, from)
        at   == from + k
        f    == IF at <= Len(s) /\ s[at] = "@" THEN IdRunFrom(s, at + 1) ELSE 0
    IN  [ok     |-> k >= 1,
         nodeId |-> SubSeq(s, from, from + k - 1),
         faceId |-> IF f >= 1 THEN SubSeq(s, at + 1, at + f) ELSE << >>,
         next   |-> IF f >= 1 THEN at + 1 + f ELSE at]

\* the alternatives of (-->|---|-.->|==), in the order the engine tries them;
\* "." stands for any character
Arrows == << <<"-", "-", ">">>, <<"-", "-", "-">>, <<"-", ".", "-", ">">>,
             <<"=", "=">> >>

\* alternative i matches at index from
ArrowAt(s, from, i) ==
    /\ from + Len(Arrows[i]) - 1 <= Len(s)
    /\ \A j \in 1..Len(Arrows[i]) :
          (i = 3 /\ j = 2) \/ s[from + j - 1] = Arrows[i][j]

QuoteChars == {"'", "\""}

\* what follows the arrow in the pipe pattern, from index from:
\*     \s* \| \s* ['"] ([^'"]+) ['"] \s* \| \s* endpoint
\* [ok, label, target]
PipeRest(s, from) ==
    LET bar1  == AfterSpaces(s, from)
        open  == AfterSpaces(s, bar1 + 1)
        close == FirstOf(s, open + 1, QuoteChars)
        bar2  == AfterSpaces(s, close + 1)
        ep    == EndpointAt(s, AfterSpaces(s, bar2 + 1))
    IN  IF /\ bar1 <= Len(s) /\ s[bar1] = "|"
           /\ open <= Len(s) /\ s[open] \in QuoteChars
           /\ close > open + 1
           /\ bar2 <= Len(s) /\ s[bar2] = "|"
           /\ ep.ok
        THEN [ok |-> TRUE, label |-> << SubSeq(s, open + 1, close - 1) >>,
              target |-> ep]
        ELSE [ok |-> FALSE, label |-> << >>, target |-> ep]

\* the optional group (?: : \s* ['"] ([^'"]+) ['"] )? after \s*, from index
\* from: << label >>, or << >> when the group does not take part
ColonLabel(s, from) ==
    LET colon == AfterSpaces(s, from)
        open  == AfterSpaces(s, colon + 1)
        close == FirstOf(s, open + 1, QuoteChars)
    IN  IF /\ colon <= Len(s) /\ s[colon] = ":"
           /\ open <= Len(s) /\ s[open] \in QuoteChars
           /\ close > open + 1
        THEN << SubSeq(s, open + 1, close - 1) >>
        ELSE << >>

\* what follows the arrow in the colon pattern, from index from:
\*     \s* endpoint \s* (label group)?
ColonRest(s, from) ==
    LET ep == EndpointAt(s, AfterSpaces(s, from))
    IN  [ok |-> ep.ok,
         label |-> IF ep.ok THEN ColonLabel(s, ep.next) ELSE << >>,
         target |-> ep]

\* what follows an arrow that ends before index from, in the pipe pattern or
\* in the colon pattern
RestAt(s, from, pipe) == IF pipe THEN PipeRest(s, from) ELSE ColonRest(s, from)

\* the arrow alternatives that match at index p and after which the rest of
\* the pattern matches
ArrowHits(s, p, pipe) ==
    {i \in 1..Len(Arrows) :
        ArrowAt(s, p, i) /\ RestAt(s, p + Len(Arrows[i]), pipe).ok}

\* the match record of a line whose source is src, whose arrow starts at p
\* and has length n, and whose rest is r
MatchRecord(s, src, p, n, r) ==
    [source |-> [nodeId |-> src.nodeId, faceId |-> src.faceId],
     arrow  |-> SubSeq(s, p, p + n - 1),
     target |-> [nodeId |-> r.target.nodeId, faceId |-> r.target.faceId],
     label  |-> r.label]

\* the match with the first alternative of hits
MatchFirst(s, src, p, pipe, hits) ==
    IF ~src.ok \/ hits = {} THEN << >>
    ELSE << MatchRecord(s, src, p, Len(Arrows[SetMin(hits)]),
                        RestAt(s, p + Len(Arrows[SetMin(hits)]), pipe)) >>

\* the match of a line whose source endpoint is src
MatchFrom(s, src, p, pipe) == MatchFirst(s, src, p, pipe, ArrowHits(s, p, pipe))

\* One pattern of parseConnectionDefinition, pipe or colon: << >> when the
\* line does not match, else << [source, arrow, target, label] >>.  The
\* engine takes the first arrow alternative after which the rest matches.
MatchConnection(line, pipe) ==
    MatchFrom(line, EndpointAt(line, 1),
              AfterSpaces(line, EndpointAt(line, 1).next), pipe)

\* MermaidParser.parseConnectionType
parseConnectionType(arrow) ==
    CASE arrow = <<"-", "-", ">">>      -> "dataflow"
      [] arrow = <<"-", ".", "-", ">">> -> "controlflow"
      [] arrow = <<"-", "-", "-">>      -> "association"
      [] arrow = <<"=", "=">>           -> "inheritance"
      [] OTHER                          -> "association"

DigitChars == <<"0", "1", "2", "3", "4", "5", "6", "7", "8", "9">>

\* `conn_${n}` for n < 10
ConnId(n) == <<"c", "o", "n", "n", "_">> \o << DigitChars[n + 1] >>

\* the connection built from match m (<< >> for null)
ConnectionOf(m, counter) ==
    IF m = << >> THEN << >>
    ELSE << [id     |-> ConnId(counter),
             type   |-> parseConnectionType(m[1].arrow),
             source |-> m[1].source,
             target |-> m[1].target,
             label  |-> m[1].label] >>

\* the pipe match when there is one, else the colon match
FirstMatch(pipeMatch, colonMatch) ==
    IF pipeMatch /= << >> THEN pipeMatch ELSE colonMatch

\* MermaidParser.parseConnectionDefinition with connectionIdCounter = counter:
\* << >> for null, else << the parsed connection >>; the pipe pattern is
\* tried first
parseConnectionDefinition(line, counter) ==
    ConnectionOf(FirstMatch(MatchConnection(line, TRUE),
                            MatchConnection(line, FALSE)), counter)

-----------------------------------------------------------------------------
(* AST3DGenerator: src/src/generators/3d-generator.ts, and the values the    *)
(* builder reads out of the parser's result                                  *)

\* the digit a character stands for
DigitValue(c) == CHOOSE d \in 0..9 : DigitChars[d + 1] = c

RECURSIVE DigitsValue(_)
\* the number a run of digits writes
DigitsValue(ds) ==
    IF ds = << >> THEN 0
    ELSE 10 * DigitsValue(SubSeq(ds, 1, Len(ds) - 1)) + DigitValue(ds[Len(ds)])

\* the length of the run of digits that starts at index from
DigitRun(s, from) ==
    IF from > Len(s) \/ s[from] \notin Digits THEN 0
    ELSE IF FirstOf(s, from, {s[j] : j \in 1..Len(s)} \ Digits) = 0
    THEN Len(s) - from + 1
    ELSE FirstOf(s, from, {s[j] : j \in 1..Len(s)} \ Digits) - from

\* the first two fraction digits, in hundredths
Hundredths(frac) ==
    DigitsValue(SubSeq(frac \o <<"0", "0">>, 1, 2))

\* parseFloat of a text whose integer digits start at index start and are n
\* long, f fraction digits following the point
FloatOf(t, start, n, f) ==
    IF n = 0 /\ f = 0 THEN << >>
    ELSE << (IF t[1] = "-" THEN -1 ELSE 1)
            * (DigitsValue(SubSeq(t, start, start + n - 1)) * Unit
               + Hundredths(SubSeq(t, start + n + 1, start + n + f))) >>

\* parseFloat of a text whose integer digits start at index start and are n
\* long
FloatFrom(t, start, n) ==
    FloatOf(t, start, n,
            IF start + n <= Len(t) /\ t[start + n] = "."
            THEN DigitRun(t, start + n + 1) ELSE 0)

\* parseFloat of a text without leading whitespace
FloatAt(t) ==
    IF t = << >> THEN << >>
    ELSE IF t[1] \in {"-", "+"} THEN FloatFrom(t, 2, DigitRun(t, 2))
    ELSE FloatFrom(t, 1, DigitRun(t, 1))

\* parseFloat(text) for decimal notation: << v >> for the number read from the
\* longest prefix that is one, in hundredths, and << >> for NaN
ParseFloat(text) == FloatAt(Trim(text))

\* str.split(',').map((s) => parseFloat(s.trim()))
FloatParts(text) ==
    [i \in 1..Len(Split(text, ",")) |-> ParseFloat(Split(text, ",")[i])]

\* the elements of the array JSON.parse made of a text [n, n, ...]
ArrayParts(text) ==
    IF Trim(SubSeq(text, 2, Len(text) - 1)) = << >> THEN << >>
    ELSE FloatParts(SubSeq(text, 2, Len(text) - 1))

\* a property as createNode reads it: << >> when the key is absent or its
\* value is falsy (the empty string, the number 0), else the PropValue
BuilderValue(v) ==
    CASE v = << >>              -> << >>
      [] v[1].kind = "array"    -> PropValue("array", ArrayParts(v[1].text))
      [] v[1].kind = "number"   ->
            IF ParseFloat(v[1].text) \in {<< >>, <<0>>} THEN << >>
            ELSE PropValue("number", << ParseFloat(v[1].text) >>)
      [] OTHER                  ->
            IF v[1].text = << >> THEN << >>
            ELSE PropValue("string", FloatParts(v[1].text))

\* the color names of the inputs, as the strings the model writes colors in
ColorName(text) ==
    CASE text = << >>                    -> ""
      [] text = <<"r", "e", "d">>        -> "red"
      [] text = <<"b", "l", "u", "e">>   -> "blue"
      [] OTHER                           -> "custom"

\* properties.color as createNode reads it: "" when absent or empty
BuilderColor(v) == IF v = << >> THEN "" ELSE ColorName(v[1].text)

\* the face names of the inputs, as the strings the model writes face ids in;
\* "" stands for a faceId that is undefined
FaceName(text) ==
    CASE text = << >>                           -> ""
      [] text = <<"f", "r", "o", "n", "t">>     -> "front"
      [] text = <<"b", "a", "c", "k">>          -> "back"
      [] text = <<"t", "o", "p">>               -> "top"
      [] OTHER                                  -> "other"

\* a ParsedNode as the builder reads it
BuilderNode(pn) ==
    [id |-> pn.id, type |-> pn.type, name |-> pn.name, geometry |-> pn.geometry,
     properties |->
        [position |-> BuilderValue(PropGet(pn.properties, <<"p", "o", "s", "i", "t", "i", "o", "n">>)),
         scale    |-> BuilderValue(PropGet(pn.properties, <<"s", "c", "a", "l", "e">>)),
         color    |-> BuilderColor(PropGet(pn.properties, <<"c", "o", "l", "o", "r">>))]]

\* a ParsedConnection as the builder reads it
BuilderConnection(pcn) ==
    [id |-> pcn.id, type |-> pcn.type,
     source |-> [nodeId |-> pcn.source.nodeId, faceId |-> FaceName(pcn.source.faceId)],
     target |-> [nodeId |-> pcn.target.nodeId, faceId |-> FaceName(pcn.target.faceId)],
     label |-> pcn.label]

\* the ParsedGraph that parse returns, as the builder reads it
ParsedGraph(pns, pcs) ==
    [nodes       |-> [i \in 1..Len(pns) |-> BuilderNode(pns[i])],
     connections |-> [k \in 1..Len(pcs) |-> BuilderConnection(pcs[k])]]

\* ASTBuilder.build throws: createNode throws on one of the nodes
buildThrows(pg) == \E i \in 1..Len(pg.nodes) : createNodeThrows(pg.nodes[i])

\* ASTBuilder.build from "Apply layout" on, g = <<nodes, connections>>
buildLayout(g, cfg) ==
    <<applyLayout(g[1], g[2], cfg),
      updateConnectionAnchors(applyLayout(g[1], g[2], cfg), g[2])>>

\* ASTBuilder.build: <<nodes, connections>> of the graph it returns
build(pg, cfg) ==
    buildLayout(
        buildConnections(pg.connections, 1,
            <<buildNodes(pg.nodes, 1, << >>, cfg.colors), << >>>>),
        cfg)

\* one message of validate: the text before the id, and the id
ErrorMessage(text, id) == [text |-> text, id |-> id]

RECURSIVE duplicateErrors(_, _)
\* validate, "Check for duplicate node IDs", over the nodes from k on
duplicateErrors(pns, k) ==
    IF k > Len(pns) THEN << >>
    ELSE (IF \E j \in 1..(k - 1) : pns[j].id = pns[k].id
          THEN << ErrorMessage("Duplicate node ID: ", pns[k].id) >>
          ELSE << >>)
         \o duplicateErrors(pns, k + 1)

\* a check of the connection's source alone
sourceErrors(pns, c) ==
    IF \E j \in 1..Len(pns) : pns[j].id = c.source.nodeId THEN << >>
    ELSE << ErrorMessage("Connection references unknown source node: ",
                         c.source.nodeId) >>

\* validate, the errors of one connection
connectionErrors(pns, c) ==
    (IF \E j \in 1..Len(pns) : pns[j].id = c.source.nodeId THEN << >>
     ELSE << ErrorMessage("Connection references unknown source node: ",
                          c.source.nodeId) >>)
    \o
    (IF \E j \in 1..Len(pns) : pns[j].id = c.target.nodeId THEN << >>
     ELSE << ErrorMessage("Connection references unknown target node: ",
                          c.target.nodeId) >>)

RECURSIVE invalidConnectionErrors(_, _, _)
\* validate, "Check for invalid connections", over the connections from k on
invalidConnectionErrors(pns, pcs, k) ==
    IF k > Len(pcs) THEN << >>
    ELSE connectionErrors(pns, pcs[k]) \o invalidConnectionErrors(pns, pcs, k + 1)

\* the value validate returns for the errors it collected
validateResult(errors) == [valid |-> errors = << >>, errors |-> errors]

\* AST3DGenerator.validate when parse returns nodes pns and connections pcs
validate(pns, pcs) ==
    validateResult(duplicateErrors(pns, 1) \o invalidConnectionErrors(pns, pcs, 1))

\* AST3DGenerator.validate when parse throws: the message of the TypeError
validateCaught ==
    [valid |-> FALSE,
     errors |-> << ErrorMessage("parsedValue.startsWith is not a function", << >>) >>]

-----------------------------------------------------------------------------
(* Idle values of the variables a specification does not use *)

IdleNode == NewNode("idle", "component", "idle", "cube")

NodeIdle == nd = IdleNode

GraphIdle == nodes = << >> /\ connections = << >> /\ lastOp = <<"new", "">>

BuildIdle == parsed = [nodes |-> << >>, connections |-> << >>]
             /\ config = DefaultConfig
             /\ pc = "idle"

ParseIdle == lines = << >> /\ currentLine = 0 /\ pnodes = << >> /\ pconns = << >>
             /\ header = [title |-> << >>, description |-> << >>, metadata |-> << >>]
             /\ ppc = "idle"
             /\ report = << >>
             /\ earlier = << >>

-----------------------------------------------------------------------------
(* SpecNode: a Node under its constructor, setPosition and setScale *)

PosCoords == {0, 3 * Unit, -250}

ScaleChoices == {UnitScale, Vec(2 * Unit, Unit, Unit),
                 Vec(Unit, 2 * Unit, 4 * Unit), Vec(3 * Unit, 3 * Unit, 3 * Unit)}

NodeInit ==
    /\ \E g \in GeometryTypes : nd = NewNode("A", "function", "f", g)
    /\ GraphIdle /\ BuildIdle /\ ParseIdle

NodeSetPosition ==
    /\ \E x \in PosCoords, y \in PosCoords, z \in PosCoords :
          nd' = setPosition(nd, Vec(x, y, z))
    /\ UNCHANGED <<graphVars, buildVars, parseVars>>

NodeSetScale ==
    /\ \E s \in ScaleChoices : nd' = setScale(nd, s)
    /\ UNCHANGED <<graphVars, buildVars, parseVars>>

NodeNext == NodeSetPosition \/ NodeSetScale

SpecNode == NodeInit /\ [][NodeNext]_vars

-----------------------------------------------------------------------------
(* SpecGraph: a Graph under its public mutation API *)

GraphNodeIds == {"A", "B"}

GraphConnIds == {"c1", "c2"}

GraphInit ==
    /\ nodes = << >> /\ connections = << >> /\ lastOp = <<"new", "">>
    /\ NodeIdle /\ BuildIdle /\ ParseIdle

GraphAddNode ==
    /\ \E id \in GraphNodeIds :
          /\ nodes' = addNode(nodes, NewNode(id, "component", id, "cube"))
          /\ lastOp' = <<"addNode", id>>
    /\ UNCHANGED <<connections, nodeVars, buildVars, parseVars>>

GraphRemoveNode ==
    /\ \E id \in GraphNodeIds :
          /\ nodes' = removeNodeNodes(nodes, id)
          /\ connections' = removeNodeConnections(nodes, connections, id)
          /\ lastOp' = <<"removeNode", id>>
    /\ UNCHANGED <<nodeVars, buildVars, parseVars>>

GraphAddConnection ==
    /\ \E cid \in GraphConnIds, s \in GraphNodeIds, t \in GraphNodeIds :
          LET c == NewConnection(cid, "dataflow", ConnectionPoint(s, ""),
                                 ConnectionPoint(t, ""), "")
          IN  IF addConnectionThrows(nodes, c)
              THEN /\ lastOp' = <<"addConnection throws", cid>>
                   /\ UNCHANGED <<nodes, connections>>
              ELSE /\ nodes' = addConnectionNodes(nodes, c)
                   /\ connections' = addConnectionConnections(nodes, connections, c)
                   /\ lastOp' = <<"addConnection", cid>>
    /\ UNCHANGED <<nodeVars, buildVars, parseVars>>

GraphRemoveConnection ==
    /\ \E cid \in GraphConnIds :
          /\ nodes' = removeConnectionNodes(nodes, connections, cid)
          /\ connections' = removeConnectionConnections(connections, cid)
          /\ lastOp' = <<"removeConnection", cid>>
    /\ UNCHANGED <<nodeVars, buildVars, parseVars>>

GraphNext ==
    \/ GraphAddNode
    \/ GraphRemoveNode
    \/ GraphAddConnection
    \/ GraphRemoveConnection

SpecGraph == GraphInit /\ [][GraphNext]_vars

-----------------------------------------------------------------------------
(* SpecCycles: Graph.hasCycles on the graphs of three nodes that addNode   *)
(* and addConnection build, in every insertion order                       *)

CycleNodeIds == {"A", "B", "C"}

MaxEdges == 3

\* the orders in which the three nodes are added
CycleOrders ==
    {o \in [1..Cardinality(CycleNodeIds) -> CycleNodeIds] :
        \A i, j \in DOMAIN o : o[i] = o[j] => i = j}

\* the connections added, in order: up to MaxEdges ordered pairs of nodes,
\* a pair of a node with itself and a pair given twice included
CycleEdges == UNION {[1..n -> CycleNodeIds \X CycleNodeIds] : n \in 0..MaxEdges}

CycleConnName == <<"c1", "c2", "c3", "c4", "c5">>

RECURSIVE WithConnections(_, _, _)
\* graph.addConnection for the edges from the k-th on, g = <<nodes, connections>>
WithConnections(g, edges, k) ==
    IF k > Len(edges) THEN g
    ELSE WithConnections(
             <<addConnectionNodes(g[1],
                   NewConnection(CycleConnName[k], "dataflow",
                       ConnectionPoint(edges[k][1], ""),
                       ConnectionPoint(edges[k][2], ""), "")),
               addConnectionConnections(g[1], g[2],
                   NewConnection(CycleConnName[k], "dataflow",
                       ConnectionPoint(edges[k][1], ""),
                       ConnectionPoint(edges[k][2], ""), ""))>>,
             edges, k + 1)

\* graph.addNode for the nodes in this order, then the connections
GraphOf(order, edges) ==
    WithConnections(
        <<[i \in DOMAIN order |-> NewNode(order[i], "component", order[i], "cube")],
          << >>>>,
        edges, 1)

CyclesInit ==
    /\ \E order \in CycleOrders, edges \in CycleEdges :
          /\ nodes = GraphOf(order, edges)[1]
          /\ connections = GraphOf(order, edges)[2]
    /\ lastOp = <<"new", "">>
    /\ NodeIdle /\ BuildIdle /\ ParseIdle

\* graph.hasCycles() returns
CyclesHasCycles ==
    /\ lastOp[1] = "new"
    /\ lastOp' = <<"hasCycles", IF hasCycles(nodes) THEN "true" ELSE "false">>
    /\ UNCHANGED <<nodes, connections, nodeVars, buildVars, parseVars>>

CyclesNext == CyclesHasCycles

SpecCycles == CyclesInit /\ [][CyclesNext]_vars

-----------------------------------------------------------------------------
(* SpecBuild: ASTBuilder.build on bounded parsed graphs *)

MaxNodes == 4

MaxConns == 3

BuildIds == <<"A", "B", "C", "D", "E", "F">>

BuildGeometry == <<"cube", "cube", "dodecahedron", "plane", "cube", "plane">>

BuildTypes == <<"function", "component", "module", "datapath", "class", "interface">>

\* the source and target of the connections an input may declare
EdgeChoices == {<<"A", "B">>, <<"A", "C">>, <<"C", "B">>, <<"B", "A">>}

\* "plain": no properties, no faces; "pinned": node A carries a position;
\* "faces1", "faces2": every connection names a face at both ends
Variants == {"plain", "pinned", "faces1", "faces2"}

SourceFace(variant) ==
    CASE variant = "faces1" -> "front" [] variant = "faces2" -> "top" [] OTHER -> ""

TargetFace(variant) ==
    CASE variant = "faces1" -> "back" [] variant = "faces2" -> "face_3" [] OTHER -> ""

\* position: "10, 0, 5" on node A
PinnedPosition == PropValue("string", << <<10 * Unit>>, <<0>>, <<5 * Unit>> >>)

SpacingChoices == {10 * Unit, 40 * Unit}

ConnName == <<"conn_0", "conn_1", "conn_2", "conn_3", "conn_4">>

InputNode(i, variant) ==
    [id |-> BuildIds[i], type |-> BuildTypes[i], name |-> BuildIds[i],
     geometry |-> BuildGeometry[i],
     properties |-> IF variant = "pinned" /\ i = 1
                    THEN [NoProps EXCEPT !.position = PinnedPosition]
                    ELSE NoProps]

InputConnection(k, edge, variant) ==
    [id |-> ConnName[k], type |-> "dataflow",
     source |-> [nodeId |-> edge[1], faceId |-> SourceFace(variant)],
     target |-> [nodeId |-> edge[2], faceId |-> TargetFace(variant)],
     label |-> ""]

\* the sequences of at most MaxConns different edges
EdgeSeqs ==
    UNION {{e \in [1..k -> EdgeChoices] : \A i, j \in 1..k : e[i] = e[j] => i = j}
           : k \in 0..MaxConns}

BuildInit ==
    /\ \E n \in 1..MaxNodes, variant \in Variants, edges \in EdgeSeqs :
          parsed = [nodes |-> [i \in 1..n |-> InputNode(i, variant)],
                    connections |-> [k \in 1..Len(edges) |->
                                        InputConnection(k, edges[k], variant)]]
    /\ \E a \in Algorithms, sp \in SpacingChoices :
          config = [DefaultConfig EXCEPT !.algorithm = a, !.nodeSpacing = sp]
    /\ pc = "start"
    /\ nodes = << >> /\ connections = << >> /\ lastOp = <<"new", "">>
    /\ NodeIdle /\ ParseIdle

\* build(): "Create nodes"
BuildCreateNodes ==
    /\ pc = "start"
    /\ nodes' = buildNodes(parsed.nodes, 1, nodes, config.colors)
    /\ pc' = "nodes"
    /\ UNCHANGED <<connections, lastOp, parsed, config, nodeVars, parseVars>>

\* build(): "Create connections"
BuildCreateConnections ==
    /\ pc = "nodes"
    /\ LET g == buildConnections(parsed.connections, 1, <<nodes, connections>>)
       IN  nodes' = g[1] /\ connections' = g[2]
    /\ pc' = "connections"
    /\ UNCHANGED <<lastOp, parsed, config, nodeVars, parseVars>>

\* build(): this.applyLayout(graph)
BuildApplyLayout ==
    /\ pc = "connections"
    /\ nodes' = applyLayout(nodes, connections, config)
    /\ pc' = "layout"
    /\ UNCHANGED <<connections, lastOp, parsed, config, nodeVars, parseVars>>

\* build(): this.updateConnectionAnchors(graph); return graph
BuildUpdateAnchors ==
    /\ pc = "layout"
    /\ connections' = updateConnectionAnchors(nodes, connections)
    /\ pc' = "done"
    /\ UNCHANGED <<nodes, lastOp, parsed, config, nodeVars, parseVars>>

\* Graph.fromJSON(graph.toJSON()) on the built graph: the graph variables
\* then hold the re-hydrated graph
BuildFromJSON ==
    /\ pc = "done"
    /\ LET g == fromJSON(toJSON(nodes, connections))
       IN  nodes' = g[1] /\ connections' = g[2]
    /\ pc' = "restored"
    /\ UNCHANGED <<lastOp, parsed, config, nodeVars, parseVars>>

BuildNext ==
    \/ BuildCreateNodes
    \/ BuildCreateConnections
    \/ BuildApplyLayout
    \/ BuildUpdateAnchors
    \/ BuildFromJSON

SpecBuild == BuildInit /\ [][BuildNext]_vars

-----------------------------------------------------------------------------
(* SpecParse: MermaidParser.parse, one step per iteration of its loop *)

MaxLines == 3

MaxProps == 2

DeclIds == {<<"A">>, <<"n", "_", "1">>}

\* the category labels of a declaration, and the type each one names
DeclCats ==
    { [text |-> <<"F", "u", "n", "c", "t", "i", "o", "n">>, type |-> "function"],
      [text |-> <<"C", "l", "a", "s", "s">>,    type |-> "class"],
      [text |-> <<"D", "A", "T", "A">>,     type |-> "datapath"] }

DeclNames == {<<"c", "l", "s">>, <<"a", "[", "0", "]">>}

\* the inline property suffixes with a scale, and the scale each one asks for
\* (<< >> where it asks for none that is a triple or a scalar of numbers)
ScaleSuffixes ==
    { [text |-> <<" ", "{", "c", "o", "l", "o", "r", ":", " ", "\"", "b", "l", "u", "e", "\"", ",", " ", "s", "c", "a", "l", "e", ":", " ", "\"", "2", ",", "1", ",", "1", "\"", "}">>,
       scale |-> << Vec(2 * Unit, Unit, Unit) >>],
      [text |-> <<" ", "{", "s", "c", "a", "l", "e", ":", " ", "\"", "2", "\"", "}">>,
       scale |-> << Vec(2 * Unit, 2 * Unit, 2 * Unit) >>],
      [text |-> <<" ", "{", "s", "c", "a", "l", "e", ":", " ", "\"", "0", ".", "5", "\"", "}">>,
       scale |-> << Vec(Unit \div 2, Unit \div 2, Unit \div 2) >>],
      [text |-> <<" ", "{", "s", "c", "a", "l", "e", ":", " ", "\"", "0", "\"", "}">>,   scale |-> << >>],
      [text |-> <<" ", "{", "s", "c", "a", "l", "e", ":", " ", "\"", "-", "1", "\"", "}">>,  scale |-> << >>],
      [text |-> <<" ", "{", "s", "c", "a", "l", "e", ":", " ", "\"", "b", "i", "g", "\"", "}">>, scale |-> << >>] }

\* nothing after the declaration, or an inline property suffix
DeclSuffixes ==
    {<< >>, <<" ", "{", "c", "o", "l", "o", "r", ":", " ", "\"", "r", "e", "d", "\"", "}">>} \cup {s.text : s \in ScaleSuffixes}

\* the geometry each of the five forms declares; the double-parenthesis form
\* names none and gets the default
FormGeometry == <<"cube", "dodecahedron", "cube", "plane", "cube">>

\* the declaration line  id open Cat: name close suffix
Decl(id, form, cat, name, suffix) ==
    id \o NodePatterns[form].open \o cat \o <<":", " ">> \o name
       \o NodePatterns[form].close \o suffix

DeclLines ==
    {Decl(id, form, cat.text, name, suffix) :
        id \in DeclIds, form \in 1..Len(NodePatterns), cat \in DeclCats,
        name \in DeclNames, suffix \in DeclSuffixes}

\* lines of every kind the loop tells apart
OtherLines ==
    { <<"%", "%", " ", "n", "o", "t", "e">>,
      <<"g", "r", "a", "p", "h", "3", "d", " ", "\"", "G", "\"">>,
      <<"t", "i", "t", "l", "e", ":", " ", "\"", "T", "\"">>,
      <<"d", "e", "s", "c", "r", "i", "p", "t", "i", "o", "n", ":", " ", "D">>,
      <<"B", "<", "C", "o", "m", "p", ":", " ", "u", "i", ">">>,
      <<"B", " ", "-", "-", ">", " ", "C">>,
      <<"{">>,
      <<"}">>,
      <<"c", "o", "l", "o", "r", ":", " ", "r", "e", "d">>,
      <<"s", "i", "z", "e", ":", " ", "2">> }

\* single lines at the edges of the loop's tests: a graph keyword alone, a
\* node opening no pattern completes, a word, arrows that are no arrow
\* literal, and two declarations joined by an arrow
JoinedLine == <<"A", "[", "F", "u", "n", "c", "t", "i", "o", "n", ":", " ", "A", "P", "I", "]", " ", "-", "-", ">", " ", "B", "{", "C", "o", "m", "p", "o", "n", "e", "n", "t", ":", " ", "U", "I", "}">>

EdgeLines ==
    { <<"a", "s", "t", "3", "d">>,
      <<"C", "(", "x", ")">>,
      <<"e", "n", "d">>,
      <<"A", " ", "=", "=", ">", " ", "B">>,
      <<"A", " ", "-", "-", "-", ">", " ", "B">>,
      JoinedLine }

\* the parts of a connection line
ConnSources == {<<"A">>, <<"a", "s", "t", "3", "d", "_", "1">>}

ConnTargets == {<<"B">>, <<"Z">>}

SourceFaces == {<< >>, <<"f", "r", "o", "n", "t">>}

TargetFaces == {<< >>, <<"t", "o", "p">>}

ArrowLiterals ==
    { [text |-> <<"-", "-", ">">>,      type |-> "dataflow"],
      [text |-> <<"-", ".", "-", ">">>, type |-> "controlflow"],
      [text |-> <<"-", "-", "-">>,      type |-> "association"],
      [text |-> <<"=", "=">>,           type |-> "inheritance"] }

Labels == {<<"d", "a", "t", "a", " ", "f", "l", "o", "w">>, << >>}

LabelForms == {"none", "pipe", "colon"}

\* id or id@face
EndpointText(id, face) == IF face = << >> THEN id ELSE id \o <<"@">> \o face

\* the connection line in one of the label syntaxes:
\*     A --> B      A -->|"label"| B      A --> B : "label"
ConnLine(src, sface, arrow, tgt, tface, form, label) ==
    LET s == EndpointText(src, sface)
        t == EndpointText(tgt, tface)
        q == <<"\"">> \o label \o <<"\"">>
    IN  CASE form = "none"  -> s \o <<" ">> \o arrow \o <<" ">> \o t
          [] form = "pipe"  -> s \o <<" ">> \o arrow \o <<"|">> \o q \o <<"|", " ">> \o t
          [] form = "colon" -> s \o <<" ">> \o arrow \o <<" ">> \o t
                                 \o <<" ", ":", " ">> \o q

ConnLines ==
    {ConnLine(src, sface, arrow.text, tgt, tface, form, label) :
        src \in ConnSources, sface \in SourceFaces, arrow \in ArrowLiterals,
        tgt \in ConnTargets, tface \in TargetFaces, form \in LabelForms,
        label \in Labels}

\* the declarations that come before a connection line
DeclA == <<"A", "[", "F", "u", "n", "c", "t", "i", "o", "n", ":", " ", "f", "]">>

DeclB == <<"B", "{", "C", "o", "m", "p", "o", "n", "e", "n", "t", ":", " ", "g", "}">>

ConnPrefixes == {<<DeclA>>, <<DeclA, DeclB>>}

ConnDocs == {prefix \o <<c>> : prefix \in ConnPrefixes, c \in ConnLines}

\* the lines of a multi-line property block
PropLines ==
    { <<"c", "o", "l", "o", "r", ":", " ", "\"", "r", "e", "d", "\"">>,
      <<"s", "i", "z", "e", ":", " ", "2">>,
      <<"p", "o", "s", "i", "t", "i", "o", "n", ":", " ", "[", "1", ",", " ", "2", ",", " ", "3", "]">>,
      <<"s", "c", "a", "l", "e", ":", " ", "\"", "2", ",", "1", ",", "1", "\"">> }

\* a declaration without suffix in each form, then "{", up to MaxProps
\* property lines, "}" or the end of the input, and a line after the block
BlockDecl(form) ==
    Decl(<<"A">>, form, <<"F", "u", "n", "c", "t", "i", "o", "n">>, <<"c", "l", "s">>, << >>)

BlockBodies == UNION {[1..n -> PropLines] : n \in 0..MaxProps}

BlockTrailers == {<< >>, <<<<"B", "<", "C", "o", "m", "p", ":", " ", "u", "i", ">">>>>}

BlockDoc(form, body, closed, trailer) ==
    <<BlockDecl(form), <<"{">> >> \o body
        \o (IF closed THEN << <<"}">> >> \o trailer ELSE << >>)

BlockDocs ==
    {BlockDoc(form, body, closed, trailer) :
        form \in 1..Len(NodePatterns), body \in BlockBodies,
        closed \in BOOLEAN, trailer \in BlockTrailers}

\* comment lines whose text after the marker would parse as a declaration,
\* a connection, a title or a key: value line
CommentLines ==
    { <<"%", "%", " ", "A", "[", "F", "u", "n", "c", "t", "i", "o", "n", ":", " ", "f", "]">>,
      <<"/", "/", " ", "A", " ", "-", "-", ">", " ", "B">>,
      <<"/", "/", " ", "t", "i", "t", "l", "e", ":", " ", "T">>,
      <<"%", "%", " ", "c", "o", "l", "o", "r", ":", " ", "r", "e", "d">> }

\* a comment alone, after a declaration, and inside the property block of a
\* declaration in each form, alone or after a property line
CommentDocs ==
    {<<c>> : c \in CommentLines}
    \cup {<<DeclA, c>> : c \in CommentLines}
    \cup {<<BlockDecl(form), <<"{">> >> \o body \o <<c, <<"}">> >> :
            form \in 1..Len(NodePatterns), c \in CommentLines,
            body \in {<< >>, << <<"c", "o", "l", "o", "r", ":", " ", "\"", "r", "e", "d", "\"">> >>}}

\* position lines of a property block, and whether the value is an array of
\* three numbers or a string of three comma-separated numbers
PositionLines ==
    { [text |-> <<"p", "o", "s", "i", "t", "i", "o", "n", ":", " ", "\"", "1", ",", "2", ",", "3", "\"">>,
       triple |-> TRUE],
      [text |-> <<"p", "o", "s", "i", "t", "i", "o", "n", ":", " ", "[", "1", ",", " ", "2", ",", " ", "3", "]">>,
       triple |-> TRUE],
      [text |-> <<"p", "o", "s", "i", "t", "i", "o", "n", ":", " ", "\"", "1", ",", "x", ",", "3", "\"">>,
       triple |-> FALSE],
      [text |-> <<"p", "o", "s", "i", "t", "i", "o", "n", ":", " ", "\"", "1", ",", "2", "\"">>,
       triple |-> FALSE],
      [text |-> <<"p", "o", "s", "i", "t", "i", "o", "n", ":", " ", "\"", "a", "b", "c", "\"">>,
       triple |-> FALSE],
      [text |-> <<"p", "o", "s", "i", "t", "i", "o", "n", ":", " ", "[", "1", ",", " ", "2", "]">>,
       triple |-> FALSE],
      [text |-> <<"p", "o", "s", "i", "t", "i", "o", "n", ":", " ", "[", "1", ",", " ", "a", ",", " ", "3", "]">>,
       triple |-> FALSE] }

\* a declaration, then a declaration with a position in its property block
PositionDoc(positionLine) ==
    <<DeclB, BlockDecl(1), <<"{">>, positionLine, <<"}">> >>

PositionDocs == {PositionDoc(p.text) : p \in PositionLines}

\* a declaration whose property block gives the scale as an array, alone and
\* after another declaration
ArrayScaleLine == <<"s", "c", "a", "l", "e", ":", " ", "[", "2", ",", " ", "1", ",", " ", "1", "]">>

ArrayScaleDocs ==
    {prefix \o <<BlockDecl(1), <<"{">>, ArrayScaleLine, <<"}">> >> :
        prefix \in {<< >>, <<DeclB>>}}

\* declarations of A, B and C with connections between them: a chain, a
\* cycle of two, a self-connection, a cycle below a root, a cycle of three
DeclC == <<"C", "[", "C", "l", "a", "s", "s", ":", " ", "h", "]">>

Arrow(src, tgt) == ConnLine(src, << >>, <<"-", "-", ">">>, tgt, << >>, "none", << >>)

LayoutDocs ==
    { <<DeclA, DeclB, Arrow(<<"A">>, <<"B">>)>>,
      <<DeclA, DeclB, Arrow(<<"A">>, <<"B">>), Arrow(<<"B">>, <<"A">>)>>,
      <<DeclA, Arrow(<<"A">>, <<"A">>)>>,
      <<DeclA, DeclB, Arrow(<<"B">>, <<"B">>)>>,
      <<DeclA, DeclB, DeclC, Arrow(<<"A">>, <<"B">>), Arrow(<<"B">>, <<"C">>),
        Arrow(<<"C">>, <<"B">>)>>,
      <<DeclA, DeclB, DeclC, Arrow(<<"A">>, <<"B">>), Arrow(<<"B">>, <<"C">>),
        Arrow(<<"C">>, <<"A">>)>> }

\* the inputs: one declaration, one edge line, up to MaxLines lines of any
\* kind, declarations and a connection, or a declaration and its property
\* block; every line is trimmed and not empty, as parse makes them
Documents ==
    {<<d>> : d \in DeclLines \cup EdgeLines}
    \cup UNION {[1..n -> OtherLines] : n \in 1..MaxLines}
    \cup ConnDocs
    \cup BlockDocs
    \cup CommentDocs
    \cup PositionDocs
    \cup LayoutDocs
    \cup ArrayScaleDocs

\* config.visual.colors: the default table, and a table of the caller's
\* that has an entry for functions only
CustomColors == [t \in NodeTypes |-> IF t = "function" THEN "#111111" ELSE ""]

ColorTables == {DefaultColors, CustomColors}

\* config.layout.algorithm: each of the four for the inputs with connections
\* between declared nodes, the default for the others
AlgorithmsFor(input) ==
    IF input \in LayoutDocs THEN Algorithms ELSE {DefaultConfig.algorithm}

ParseInit ==
    /\ lines \in Documents
    /\ currentLine = 0
    /\ pnodes = << >>
    /\ pconns = << >>
    /\ header = [title |-> << >>, description |-> << >>, metadata |-> << >>]
    /\ ppc = "loop"
    /\ report = << >>
    /\ earlier = << >>
    /\ parsed = [nodes |-> << >>, connections |-> << >>]
    /\ config \in {[DefaultConfig EXCEPT !.colors = c, !.algorithm = a] :
                        c \in ColorTables, a \in AlgorithmsFor(lines)}
    /\ pc = "idle"
    /\ NodeIdle /\ GraphIdle

\* the loop is at a line
AtLine == ppc = "loop" /\ currentLine < Len(lines)

ThisLine == lines[currentLine + 1]

\* "Skip comments"
ParseComment ==
    /\ AtLine
    /\ IsComment(ThisLine)
    /\ currentLine' = currentLine + 1
    /\ UNCHANGED <<lines, pnodes, pconns, header, ppc,
                   nodeVars, graphVars, buildVars, report, earlier>>

\* "Parse graph declaration"
ParseGraphDecl ==
    /\ AtLine
    /\ ~IsComment(ThisLine)
    /\ IsGraphDecl(ThisLine)
    /\ header' = IF graphTitle(ThisLine) /= << >>
                 THEN [header EXCEPT !.title = graphTitle(ThisLine)]
                 ELSE header
    /\ currentLine' = currentLine + 1
    /\ UNCHANGED <<lines, pnodes, pconns, ppc, nodeVars, graphVars, buildVars, report, earlier>>

\* "Parse title"
ParseTitle ==
    /\ AtLine
    /\ ~IsComment(ThisLine) /\ ~IsGraphDecl(ThisLine)
    /\ IsTitle(ThisLine)
    /\ header' = [header EXCEPT
                    !.title = << StripQuotes(Trim(SubSeq(ThisLine, 7,
                                                   Len(ThisLine)))) >>]
    /\ currentLine' = currentLine + 1
    /\ UNCHANGED <<lines, pnodes, pconns, ppc, nodeVars, graphVars, buildVars, report, earlier>>

\* "Parse description"
ParseDescription ==
    /\ AtLine
    /\ ~IsComment(ThisLine) /\ ~IsGraphDecl(ThisLine) /\ ~IsTitle(ThisLine)
    /\ IsDescription(ThisLine)
    /\ header' = [header EXCEPT
                    !.description = << StripQuotes(Trim(SubSeq(ThisLine, 13,
                                                         Len(ThisLine)))) >>]
    /\ currentLine' = currentLine + 1
    /\ UNCHANGED <<lines, pnodes, pconns, ppc, nodeVars, graphVars, buildVars, report, earlier>>

\* none of the tests before isNodeDefinition holds
NotHeader(line) ==
    ~IsComment(line) /\ ~IsGraphDecl(line) /\ ~IsTitle(line)
    /\ ~IsDescription(line)

\* "Parse node definition": the node is pushed when a pattern matches, the
\* cursor moves past a property block, and a TypeError ends parse
ParseNode ==
    /\ AtLine
    /\ NotHeader(ThisLine)
    /\ isNodeDefinition(ThisLine)
    /\ LET r == parseNodeDefinition(lines, currentLine)
       IN  IF r.threw
           THEN /\ ppc' = "threw"
                /\ currentLine' = r.cursor
                /\ UNCHANGED pnodes
           ELSE /\ pnodes' = pnodes \o r.node
                /\ currentLine' = r.cursor + 1
                /\ UNCHANGED ppc
    /\ UNCHANGED <<lines, pconns, header, nodeVars, graphVars, buildVars, report, earlier>>

\* "Parse connection": the connection is pushed when a pattern matches;
\* connectionIdCounter is the number of connections pushed so far
ParseConnection ==
    /\ AtLine
    /\ NotHeader(ThisLine)
    /\ ~isNodeDefinition(ThisLine)
    /\ isConnectionDefinition(ThisLine)
    /\ pconns' = pconns \o parseConnectionDefinition(ThisLine, Len(pconns))
    /\ currentLine' = currentLine + 1
    /\ UNCHANGED <<lines, pnodes, header, ppc, nodeVars, graphVars, buildVars, report, earlier>>

\* "Parse metadata"
ParseMetadata ==
    /\ AtLine
    /\ NotHeader(ThisLine)
    /\ ~isNodeDefinition(ThisLine) /\ ~isConnectionDefinition(ThisLine)
    /\ IsMetadata(ThisLine)
    /\ LET parts == Split(ThisLine, ":")
       IN  header' = [header EXCEPT
                        !.metadata = PropSet(@, Trim(parts[1]),
                                             StripQuotes(Trim(parts[2])))]
    /\ currentLine' = currentLine + 1
    /\ UNCHANGED <<lines, pnodes, pconns, ppc, nodeVars, graphVars, buildVars, report, earlier>>

\* a line no test accepts is passed over
ParseSkip ==
    /\ AtLine
    /\ NotHeader(ThisLine)
    /\ ~isNodeDefinition(ThisLine) /\ ~isConnectionDefinition(ThisLine)
    /\ ~IsMetadata(ThisLine)
    /\ currentLine' = currentLine + 1
    /\ UNCHANGED <<lines, pnodes, pconns, header, ppc,
                   nodeVars, graphVars, buildVars, report, earlier>>

\* the loop ends and parse returns
ParseReturn ==
    /\ ppc = "loop"
    /\ currentLine >= Len(lines)
    /\ ppc' = "done"
    /\ UNCHANGED <<lines, currentLine, pnodes, pconns, header,
                   nodeVars, graphVars, buildVars, report, earlier>>

\* AST3DGenerator.generate after parse has returned: this.builder.build on
\* the parsed graph; the graph variables then hold the graph it returns
GenerateBuild ==
    /\ ppc = "done"
    /\ parsed' = ParsedGraph(pnodes, pconns)
    /\ IF buildThrows(parsed')
       THEN /\ ppc' = "buildthrew"
            /\ UNCHANGED <<nodes, connections>>
       ELSE /\ nodes' = build(parsed', config)[1]
            /\ connections' = build(parsed', config)[2]
            /\ ppc' = "built"
    /\ UNCHANGED <<lines, currentLine, pnodes, pconns, header, report, earlier,
                   lastOp, config, pc, nodeVars>>

\* AST3DGenerator.validate on the same input, before or after generate; its
\* own call of parse returns or throws as the one before did
Validate ==
    /\ ppc \in {"done", "threw", "built", "buildthrew"}
    /\ report' = IF ppc = "threw" THEN << validateCaught >>
                 ELSE << validate(pnodes, pconns) >>
    /\ ppc' = "validated"
    /\ UNCHANGED <<lines, currentLine, pnodes, pconns, header, earlier,
                   nodeVars, graphVars, buildVars>>

\* generate is called again with the same input on the same generator:
\* parse resets the parser's fields, takes the input's lines and starts its
\* loop at line 0; its locals title, description and metadata are new
ParseAgain ==
    /\ ppc \in {"threw", "built", "buildthrew"}
    /\ earlier = << >>
    /\ earlier' = << [ppc |-> ppc, nodes |-> nodes, connections |-> connections] >>
    /\ pnodes' = reset.nodes
    /\ pconns' = reset.connections
    /\ currentLine' = 0
    /\ header' = [title |-> << >>, description |-> << >>, metadata |-> << >>]
    /\ ppc' = "loop"
    /\ UNCHANGED <<lines, report, nodeVars, graphVars, buildVars>>

ParseNext ==
    \/ ParseComment
    \/ ParseGraphDecl
    \/ ParseTitle
    \/ ParseDescription
    \/ ParseNode
    \/ ParseConnection
    \/ ParseMetadata
    \/ ParseSkip
    \/ ParseReturn
    \/ GenerateBuild
    \/ Validate
    \/ ParseAgain

SpecParse == ParseInit /\ [][ParseNext]_vars

\* One call of generate, from its start to its return or its exception.  The
\* call runs on one thread and nothing else is scheduled: while a step of it
\* is possible, a step is taken.
GenerateNext ==
    \/ ParseComment
    \/ ParseGraphDecl
    \/ ParseTitle
    \/ ParseDescription
    \/ ParseNode
    \/ ParseConnection
    \/ ParseMetadata
    \/ ParseSkip
    \/ ParseReturn
    \/ GenerateBuild

\* the call has neither returned nor thrown: its loop is at a line or at the
\* end of the input, or the builder has not run yet, so a step of it is
\* possible
Running == ppc \in {"loop", "done"}

\* weak fairness of the steps of the call, with the states in which a step is
\* possible written out: the call does not stay for ever in states where it
\* can step without stepping
GenerateFair == []<>(~Running) \/ []<><<GenerateNext>>_vars

SpecGenerate == ParseInit /\ [][GenerateNext]_vars /\ GenerateFair

-----------------------------------------------------------------------------
(* Claims *)

ExpectedFaceIds(geometry) ==
    CASE geometry = "cube"  -> {"front", "back", "top", "bottom", "left", "right"}
      [] geometry = "plane" -> {"front"}
      [] geometry = "dodecahedron" -> {DodecaFaceName[i] : i \in 0..11}

\* C3: at construction and after every setPosition or setScale, a node's set
\* of face ids is the one of its geometry class: the six named faces for a
\* cube, {front} for a plane, face_0 .. face_11 for a dodecahedron.
C3_FaceIdsByGeometry == FaceIds(nd) = ExpectedFaceIds(nd.geometry)

\* the adjacency lists of node n hold no id twice
NoDuplicates(seq) == \A i, j \in 1..Len(seq) : seq[i] = seq[j] => i = j

\* C9: in every state the mutation API reaches, each node's children and
\* parents lists hold no id twice and only ids of nodes in the graph.
C9_AdjacencyWellFormed ==
    \A i \in 1..Len(nodes) :
        /\ NoDuplicates(nodes[i].children)
        /\ NoDuplicates(nodes[i].parents)
        /\ \A k \in 1..Len(nodes[i].children) :
              nodes[i].children[k] \in MapKeys(nodes)
        /\ \A k \in 1..Len(nodes[i].parents) :
              nodes[i].parents[k] \in MapKeys(nodes)

\* C10: after removeNode(id) returns, the graph has no node id, no connection
\* from or to id, and no node lists id among its children or parents.
C10_RemoveNodeCascades ==
    lastOp[1] = "removeNode" =>
        LET id == lastOp[2]
        IN  /\ ~MapHas(nodes, id)
            /\ \A k \in 1..Len(connections) :
                  connections[k].source.nodeId /= id
                  /\ connections[k].target.nodeId /= id
            /\ \A i \in 1..Len(nodes) :
                  ~Includes(nodes[i].children, id)
                  /\ ~Includes(nodes[i].parents, id)

\* the position a parsed node's position property parses to (the origin
\* when it has none)
DeclaredPosition(parsedNode) ==
    IF parsedNode.properties.position = << >> THEN Origin
    ELSE parsePosition(parsedNode.properties.position[1])

\* C1: whatever the layout algorithm, a node whose position property parses
\* to a non-origin vector has exactly that position in the built graph, also
\* when it is connected to un-pinned nodes.
C1_PinnedKeepPosition ==
    pc = "done" =>
        \A i \in 1..Len(parsed.nodes) :
            DeclaredPosition(parsed.nodes[i]) /= Origin =>
                MapGet(nodes, parsed.nodes[i].id).position
                    = DeclaredPosition(parsed.nodes[i])

\* the anchor the claim requires of a connection endpoint
AnchorAsClaimed(point) ==
    LET node == MapGet(nodes, point.nodeId)
    IN  IF point.faceId = "" THEN point.anchor = << node.position >>
        ELSE \E i \in 1..Len(node.faces) :
                /\ node.faces[i].id = point.faceId
                /\ point.anchor = << node.faces[i].center >>

\* C2: after build, an endpoint without faceId is anchored at its node's
\* final position and an endpoint with a faceId at the center of that face
\* of its node.  Stated for the faceIds that name a face of the node's
\* geometry class (a faceId that names no such face is another claim's case).
C2_AnchorsConsistent ==
    pc = "done" =>
        \A k \in 1..Len(connections) :
            \A point \in {connections[k].source, connections[k].target} :
                (point.faceId = ""
                 \/ point.faceId \in
                        ExpectedFaceIds(MapGet(nodes, point.nodeId).geometry))
                    => AnchorAsClaimed(point)

\* the built nodes whose declaration pins no position, in node map order
Unpinned ==
    SelectSeq(nodes, LAMBDA n :
        \A i \in 1..Len(parsed.nodes) :
            parsed.nodes[i].id = n.id => DeclaredPosition(parsed.nodes[i]) = Origin)

\* C6: grid layout puts the n un-pinned nodes row-major on a square grid of
\* side ceil(sqrt(n)) and cell size max(spacing, 30) whose centre is the
\* origin.
C6_GridCentred ==
    (pc = "done" /\ config.algorithm = "grid") =>
        LET free == Unpinned
            side == CeilSqrt(Len(free))
            cell == Max(config.nodeSpacing, MinSpacing)
        IN  \A k \in 1..Len(free) :
                /\ free[k].position.y = 0
                /\ 2 * free[k].position.x
                       = (2 * ((k - 1) % side) - (side - 1)) * cell
                /\ 2 * free[k].position.z
                       = (2 * ((k - 1) \div side) - (side - 1)) * cell

\* the pairs <<parent, child>> of the children lists
ChildEdges ==
    UNION {{<<nodes[i].id, nodes[i].children[k]>> :
                k \in 1..Len(nodes[i].children)} : i \in 1..Len(nodes)}

RECURSIVE Descendants(_, _)
\* the ids reached from the ids in S over at most n child edges, S included
Descendants(S, n) ==
    IF n = 0 THEN S
    ELSE Descendants(S \cup {e[2] : e \in {d \in ChildEdges : d[1] \in S}}, n - 1)

Acyclic ==
    \A i \in 1..Len(nodes) :
        nodes[i].id \notin
            Descendants({e[2] : e \in {d \in ChildEdges : d[1] = nodes[i].id}},
                        Len(nodes))

NoPins == Len(Unpinned) = Len(nodes)

\* the layer a node's final vertical coordinate stands for
LayerOf(n) == n.position.y \div (2 * config.nodeSpacing)

\* C7: hierarchical layout of an acyclic graph without pinned nodes puts
\* every node in a layer at least one greater than each of its parents', in
\* whatever order the connections were declared.
C7_ChildBelowParents ==
    (pc = "done" /\ config.algorithm = "hierarchical" /\ Acyclic /\ NoPins) =>
        \A e \in ChildEdges :
            LayerOf(MapGet(nodes, e[2])) >= LayerOf(MapGet(nodes, e[1])) + 1

\* C8: hierarchical layout gives the un-pinned nodes of one layer x
\* coordinates evenly spaced by max(spacing, 30) and symmetric about 0 (one
\* node alone at x = 0), also for a node reachable from several roots.
\* Stated for acyclic graphs, where every node is reachable from a root.
C8_LayerRowsCentred ==
    (pc = "done" /\ config.algorithm = "hierarchical" /\ Acyclic) =>
        LET free == Unpinned
            cell == Max(config.nodeSpacing, MinSpacing)
        IN  \A k \in 1..Len(free) :
                LET row == {free[j].position.x :
                               j \in {i \in 1..Len(free) :
                                         free[i].position.y = free[k].position.y}}
                    inRow == Cardinality({i \in 1..Len(free) :
                                 free[i].position.y = free[k].position.y})
                IN  {2 * x : x \in row}
                        = {(2 * i - (inRow - 1)) * cell : i \in 0..(inRow - 1)}


\* C4: for every node declaration the parser accepts, in any of the five
\* delimiter forms and with or without an inline property suffix, the parsed
\* geometry is the one its delimiter pair declares, whatever the category
\* label, the display name and the property text on the line.
C4_GeometryByDelimiter ==
    \A id \in DeclIds, form \in 1..Len(NodePatterns), cat \in DeclCats,
       name \in DeclNames, suffix \in DeclSuffixes :
        (/\ ppc = "done"
         /\ lines = << Decl(id, form, cat.text, name, suffix) >>
         /\ Len(pnodes) = 1)
        => pnodes[1].geometry = FormGeometry[form]

\* C5: for each of the five declaration forms the parsed node's type is the
\* category its label names, matched case-insensitively; a double-square
\* declaration E[[Class: cls]] has type "class".
C5_TypeByCategory ==
    \A id \in DeclIds, form \in 1..Len(NodePatterns), cat \in DeclCats,
       name \in DeclNames, suffix \in DeclSuffixes :
        (/\ ppc = "done"
         /\ lines = << Decl(id, form, cat.text, name, suffix) >>
         /\ Len(pnodes) = 1)
        => pnodes[1].type = cat.type


\* C20: the single line  A[Function: API] --> B{Component: UI}  parses to the
\* two nodes A and B and to one connection from A to B.
C20_JoinedLineDeclaresBoth ==
    (ppc = "done" /\ lines = << JoinedLine >>)
        => /\ Len(pnodes) = 2
           /\ pnodes[1].id = <<"A">> /\ pnodes[2].id = <<"B">>
           /\ Len(pconns) = 1
           /\ pconns[1].source.nodeId = <<"A">>
           /\ pconns[1].target.nodeId = <<"B">>

\* two parsed connections (<< >> for null) agree on endpoints, type and label
SameConnection(a, b) ==
    /\ a /= << >> /\ b /= << >>
    /\ a[1].source = b[1].source
    /\ a[1].target = b[1].target
    /\ a[1].type = b[1].type
    /\ a[1].label = b[1].label

\* C19: for any source id, target id, optional face suffixes, arrow literal
\* and label text, the line in the pipe syntax and the line in the
\* trailing-colon syntax each parse to one connection, and the two
\* connections have the same endpoints, type and label.
C19_PipeColonSameConnection ==
    \A src \in ConnSources, sface \in SourceFaces, arrow \in ArrowLiterals,
       tgt \in ConnTargets, tface \in TargetFaces, label \in Labels,
       form \in {"pipe", "colon"} :
        (/\ ppc = "done"
         /\ lines \in ConnDocs
         /\ lines[Len(lines)] = ConnLine(src, sface, arrow.text, tgt, tface, form, label))
        => /\ Len(pconns) = 1
           /\ SameConnection(
                parseConnectionDefinition(
                    ConnLine(src, sface, arrow.text, tgt, tface, "pipe", label), 0),
                parseConnectionDefinition(
                    ConnLine(src, sface, arrow.text, tgt, tface, "colon", label), 0))

\* what each line of PropLines asks for: the key, and the value in the kind
\* the line's text has
PropExpected ==
    { [line  |-> <<"c", "o", "l", "o", "r", ":", " ", "\"", "r", "e", "d", "\"">>,
       key   |-> <<"c", "o", "l", "o", "r">>,
       value |-> PropText("string", <<"r", "e", "d">>)],
      [line  |-> <<"s", "i", "z", "e", ":", " ", "2">>,
       key   |-> <<"s", "i", "z", "e">>,
       value |-> PropText("number", <<"2">>)],
      [line  |-> <<"p", "o", "s", "i", "t", "i", "o", "n", ":", " ", "[", "1", ",", " ", "2", ",", " ", "3", "]">>,
       key   |-> <<"p", "o", "s", "i", "t", "i", "o", "n">>,
       value |-> PropText("array", <<"[", "1", ",", " ", "2", ",", " ", "3", "]">>)],
      [line  |-> <<"s", "c", "a", "l", "e", ":", " ", "\"", "2", ",", "1", ",", "1", "\"">>,
       key   |-> <<"s", "c", "a", "l", "e">>,
       value |-> PropText("string", <<"2", ",", "1", ",", "1">>)] }

ExpectedOf(line) == CHOOSE e \in PropExpected : e.line = line

\* the properties a block body asks for: the last line of a key decides
BodyStored(body, props) ==
    \A i \in 1..Len(body) :
        (\A j \in (i + 1)..Len(body) : ExpectedOf(body[j]).key /= ExpectedOf(body[i]).key)
            => PropGet(props, ExpectedOf(body[i]).key) = << ExpectedOf(body[i]).value >>

\* the declaration forms whose closing delimiter is no brace
UnbracedForms == {form \in 1..Len(NodePatterns) : NodePatterns[form].close /= <<"}">>}

\* C13: in a multi-line property block every key: value line is stored, a
\* numeric literal as a number, a bracketed JSON value as an array, anything
\* else as a quote-stripped string, and parse does not throw.
C13_BlockValuesStored ==
    \A form \in UnbracedForms, body \in BlockBodies, closed \in BOOLEAN,
       trailer \in BlockTrailers :
        (/\ ppc \in {"done", "threw"}
         /\ lines = BlockDoc(form, body, closed, trailer))
        => /\ ppc = "done"
           /\ Len(pnodes) >= 1
           /\ BodyStored(body, pnodes[1].properties)

\* C14: a declaration in any of the five forms, without inline suffix and
\* followed by the line "{", takes the key: value lines up to the line "}"
\* as its properties; no line of the block becomes a node, a connection or
\* graph metadata.
C14_BlockBelongsToNode ==
    \A form \in 1..Len(NodePatterns), body \in BlockBodies,
       trailer \in BlockTrailers :
        (/\ ppc = "done"
         /\ lines = BlockDoc(form, body, TRUE, trailer))
        => /\ Len(pnodes) = 1 + Len(trailer)
           /\ pnodes[1].id = <<"A">>
           /\ BodyStored(body, pnodes[1].properties)
           /\ pconns = << >>
           /\ header.metadata = << >>

\* the endpoint's faceId names no face of its node
Unresolved(point) ==
    /\ point.faceId /= ""
    /\ \A i \in 1..Len(MapGet(nodes, point.nodeId).faces) :
          MapGet(nodes, point.nodeId).faces[i].id /= point.faceId

\* C17: after build every connection has both anchors set, and an endpoint
\* whose faceId resolves to no face of its node is anchored at the node's
\* current position.
C17_UnresolvedFaceAtPosition ==
    pc = "done" =>
        \A k \in 1..Len(connections) :
            \A point \in {connections[k].source, connections[k].target} :
                /\ point.anchor /= << >>
                /\ Unresolved(point)
                      => point.anchor = << MapGet(nodes, point.nodeId).position >>

\* the re-hydrated graph <<ns2, cs2>> has the node ids, types and positions
\* and the connection endpoints (nodeId, faceId, anchor) of <<ns1, cs1>>
SameGraph(ns1, cs1, ns2, cs2) ==
    /\ Len(ns2) = Len(ns1)
    /\ \A i \in 1..Len(ns1) :
          /\ ns2[i].id = ns1[i].id
          /\ ns2[i].type = ns1[i].type
          /\ ns2[i].position = ns1[i].position
    /\ Len(cs2) = Len(cs1)
    /\ \A k \in 1..Len(cs1) :
          /\ cs2[k].id = cs1[k].id
          /\ cs2[k].source = cs1[k].source
          /\ cs2[k].target = cs1[k].target

\* C11: Graph.fromJSON applied to the serialized form of a built graph gives
\* a graph with the same node ids, types and positions and, for every
\* connection, the same source and target nodeId, faceId and anchor.
C11_RoundTripSame ==
    [][(pc = "done" /\ pc' = "restored")
          => SameGraph(nodes, connections, nodes', connections')]_vars

\* the ids of pns
DeclaredIds(pns) == {pns[i].id : i \in 1..Len(pns)}

RECURSIVE UndeclaredEndpoints(_, _, _)
\* the endpoint ids of the connections pcs from k on that no node of pns
\* declares, source before target, one entry per endpoint
UndeclaredEndpoints(pns, pcs, k) ==
    IF k > Len(pcs) THEN << >>
    ELSE SelectSeq(<<pcs[k].source.nodeId, pcs[k].target.nodeId>>,
                   LAMBDA id : id \notin DeclaredIds(pns))
         \o UndeclaredEndpoints(pns, pcs, k + 1)

\* the errors of a report that are about connections
EndpointErrors(r) ==
    SelectSeq(r.errors, LAMBDA e : e.text /= "Duplicate node ID: ")

\* the parsed connections whose endpoints are both declared
DeclaredConnections(pns, pcs) ==
    SelectSeq(pcs, LAMBDA c : /\ c.source.nodeId \in DeclaredIds(pns)
                              /\ c.target.nodeId \in DeclaredIds(pns))

\* the input  A[Function: f]  /  A --> Z
UndeclaredZ == <<DeclA, ConnLine(<<"A">>, << >>, <<"-", "-", ">">>, <<"Z">>, << >>, "none", << >>)>>

\* C12: build omits every parsed connection with an endpoint no parsed node
\* declares and does not throw for it, and validate reports one error per
\* undeclared endpoint, naming its id; for  A[Function: f]  /  A --> Z  the
\* built graph has 1 node and 0 connections and validate returns one error,
\* which names Z.
C12_UndeclaredEndpointDropped ==
    /\ (ppc \in {"built", "buildthrew"}
        /\ UndeclaredEndpoints(pnodes, pconns, 1) /= << >>)
           => /\ ppc = "built"
              /\ [k \in 1..Len(connections) |-> connections[k].id]
                    = [k \in 1..Len(DeclaredConnections(pnodes, pconns)) |->
                          DeclaredConnections(pnodes, pconns)[k].id]
    /\ (ppc = "validated" /\ report /= << validateCaught >>)
           => /\ Len(EndpointErrors(report[1]))
                    = Len(UndeclaredEndpoints(pnodes, pconns, 1))
              /\ \A i \in 1..Len(EndpointErrors(report[1])) :
                    EndpointErrors(report[1])[i].id
                        = UndeclaredEndpoints(pnodes, pconns, 1)[i]
              /\ report[1].valid = (report[1].errors = << >>)
    /\ (lines = UndeclaredZ /\ ppc = "built")
           => Len(nodes) = 1 /\ connections = << >>
    /\ (lines = UndeclaredZ /\ ppc = "validated")
           => /\ Len(report[1].errors) = 1
              /\ report[1].errors[1].id = <<"Z">>

\* generate and then validate have run on  A[Function: f]  /  A --> Z
C12_Witness ==
    /\ lines = UndeclaredZ
    /\ ppc = "validated"
    /\ Len(pconns) = 1 /\ pconns[1].target.nodeId = <<"Z">>
    /\ Len(nodes) = 1 /\ connections = << >>
    /\ Len(report[1].errors) = 1

\* C15: an inline property block with a scale written as a comma-separated
\* triple, as in {color: "blue", scale: "2,1,1"}, gives the built node that
\* scale component by component, and a single scalar s gives (s, s, s).
C15_InlineScaleApplied ==
    \A id \in DeclIds, form \in 1..Len(NodePatterns), cat \in DeclCats,
       name \in DeclNames, suffix \in ScaleSuffixes :
        (/\ ppc = "built"
         /\ suffix.scale /= << >>
         /\ lines = << Decl(id, form, cat.text, name, suffix.text) >>)
        => /\ Len(nodes) = 1
           /\ nodes[1].scale = suffix.scale[1]

\* the declaration that built node n comes from sets no color property
NoColorProperty(n) ==
    \A i \in 1..Len(parsed.nodes) :
        parsed.nodes[i].id = n.id => parsed.nodes[i].properties.color = ""

\* C16: a built node whose declaration sets no color property has the color
\* the builder's configuration gives its type, and gray #808080 when the
\* configured table has no entry for the type.
C16_ThemeColorApplied ==
    ppc = "built" =>
        \A i \in 1..Len(nodes) :
            NoColorProperty(nodes[i])
                => nodes[i].color = themeColor(config.colors, nodes[i].type)

\* a scale component that is a number greater than zero
Positive(v) == v /= NaN /\ v > 0

\* C18: in every graph build produces, the three scale components of every
\* node are strictly positive, whatever the scale property of the input is.
C18_ScalePositive ==
    ppc = "built" =>
        \A i \in 1..Len(nodes) :
            /\ Positive(nodes[i].scale.x)
            /\ Positive(nodes[i].scale.y)
            /\ Positive(nodes[i].scale.z)

\* the lines the loop has passed that are no comment
PassedLines ==
    {i \in 1..Len(lines) : i <= currentLine /\ ~IsComment(lines[i])}

\* C21: a line that starts with %% or // is a comment wherever it stands,
\* also inside a multi-line property block: no node property and no metadata
\* entry has a key that is the text of a comment line, and the nodes,
\* connections, title and description all come from lines that are no
\* comment.
C21_CommentsProduceNothing ==
    /\ \A i \in 1..Len(pnodes) : \A j \in 1..Len(pnodes[i].properties) :
            ~IsComment(pnodes[i].properties[j].key)
    /\ \A j \in 1..Len(header.metadata) : ~IsComment(header.metadata[j].key)
    /\ Len(pnodes) + Len(pconns) <= Cardinality(PassedLines)
    /\ header.title /= << >>
        => \E i \in PassedLines : IsGraphDecl(lines[i]) \/ IsTitle(lines[i])
    /\ header.description /= << >>
        => \E i \in PassedLines : IsDescription(lines[i])

\* the parsed graph with no position property on any node
Unpositioned(pg) ==
    [pg EXCEPT !.nodes = [i \in 1..Len(pg.nodes) |->
                            [pg.nodes[i] EXCEPT !.properties.position = << >>]]]

\* C22: a position property that is neither an array of three numbers nor a
\* string of three comma-separated numbers leaves the node that createNode
\* makes at the origin, and layout treats the node as un-pinned: every node
\* of the built graph is where it is when the property is not given at all.
C22_MalformedPositionIsOrigin ==
    \A p \in PositionLines :
        (/\ ~p.triple
         /\ ppc = "built"
         /\ lines = PositionDoc(p.text))
        => /\ createNode(parsed.nodes[2], config.colors).position = Origin
           /\ \A i \in 1..Len(nodes) :
                nodes[i].position = build(Unpositioned(parsed), config)[1][i].position

\* the node ids and positions, the connection ids and the anchors of two
\* graphs are the same
SameOutput(ns1, cs1, ns2, cs2) ==
    /\ Len(ns1) = Len(ns2)
    /\ \A i \in 1..Len(ns1) :
        /\ ns1[i].id = ns2[i].id
        /\ ns1[i].position = ns2[i].position
    /\ Len(cs1) = Len(cs2)
    /\ \A k \in 1..Len(cs1) :
        /\ cs1[k].id = cs2[k].id
        /\ cs1[k].source.anchor = cs2[k].source.anchor
        /\ cs1[k].target.anchor = cs2[k].target.anchor

C24_FaceSuffixKept ==
    \A sface \in SourceFaces, arrow \in ArrowLiterals, tface \in TargetFaces,
       form \in LabelForms, label \in Labels :
        (/\ ppc = "built"
         /\ ~(form = "pipe" /\ label = << >>)
         /\ lines = <<DeclA, DeclB,
                      ConnLine(<<"A">>, sface, arrow.text, <<"B">>, tface, form, label)>>)
        => /\ Len(pconns) = 1
           /\ pconns[1].source.faceId = sface
           /\ pconns[1].target.faceId = tface
           /\ Len(connections) = 1
           /\ connections[1].source.faceId = FaceName(sface)
           /\ connections[1].target.faceId = FaceName(tface)

\* build has returned the graph for a labelled line with both suffixes,
\* A@front and B@top
C24_Witness ==
    /\ ppc = "built"
    /\ Len(connections) = 1
    /\ connections[1].source.nodeId = <<"A">>
    /\ connections[1].source.faceId = "front"
    /\ connections[1].target.nodeId = <<"B">>
    /\ connections[1].target.faceId = "top"
    /\ pconns[1].label = << <<"d", "a", "t", "a", " ", "f", "l", "o", "w">> >>

\* b is in a's children exactly when a is in b's parents, and exactly when
\* some connection has source a and target b, for all nodes a, b of a graph
AdjacencyIsConnections(ns, cs) ==
    \A i, j \in 1..Len(ns) :
        /\ Includes(ns[i].children, ns[j].id) <=> Includes(ns[j].parents, ns[i].id)
        /\ Includes(ns[i].children, ns[j].id)
             <=> \E k \in 1..Len(cs) : /\ cs[k].source.nodeId = ns[i].id
                                       /\ cs[k].target.nodeId = ns[j].id

\* C25: addConnection, removeConnection and removeNode keep the children
\* and parents lists in step with the connections: when the lists agree
\* with the connections before the call, they agree after it, also with
\* several connections between the same ordered pair of nodes and with
\* addConnection on an id already in use.
C25_AdjacencyFollowsConnections ==
    [][(/\ AdjacencyIsConnections(nodes, connections)
        /\ lastOp'[1] \in {"addConnection", "removeConnection", "removeNode"})
       => AdjacencyIsConnections(nodes', connections')]_vars

\* C26: when validate finds the input valid, generate returns a graph, and
\* the graph has one node per parsed declaration and every parsed
\* connection.
C26_ValidInputGenerates ==
    (/\ ppc \in {"built", "buildthrew"}
     /\ validate(pnodes, pconns).valid)
    => /\ ppc = "built"
       /\ Len(nodes) = Len(pnodes)
       /\ \A i \in 1..Len(pnodes) : MapHas(nodes, pnodes[i].id)
       /\ Len(connections) = Len(pconns)
       /\ \A k \in 1..Len(pconns) : MapHas(connections, pconns[k].id)

\* the bounding box and the faces of a node are the ones of its transform
DerivedFromTransform(n) ==
    /\ n.boundingBox.center = n.position
    /\ n.boundingBox.size = n.scale
    /\ n.faces = generateFaces(n.geometry, n.position, n.scale)

\* C27: after the Node constructor, setPosition, setScale, build and
\* Graph.fromJSON every node's boundingBox.center is its transform.position,
\* its boundingBox.size is its transform.scale and its face centers are the
\* ones generated from its current transform.
C27_DerivedFieldsCurrent ==
    /\ DerivedFromTransform(nd)
    /\ \A i \in 1..Len(nodes) : DerivedFromTransform(nodes[i])

\* the hierarchical layout has put the node with this id into a layer
InSomeLayer(ns, id) ==
    \E l \in 1..Len(hierarchicalLayers(ns)) : Includes(hierarchicalLayers(ns)[l], id)

\* C28: with the hierarchical layout every node that createNode leaves at
\* the origin (every un-pinned node) is assigned to a layer, also a node
\* that no node without parents reaches: a node on a cycle, a node with a
\* self-connection.
C28_EveryNodeLayered ==
    (ppc = "built" /\ config.algorithm = "hierarchical")
    => \A i \in 1..Len(parsed.nodes) :
            createNode(parsed.nodes[i], config.colors).position = Origin
                => InSomeLayer(nodes, parsed.nodes[i].id)

\* generate has returned a graph or has thrown
Terminated == ppc \in {"built", "buildthrew", "threw"}

\* C29: a call of generate ends for every input under each of the four
\* layout algorithms, also when the connections form a cycle and when a
\* property block is never closed, and the parser's line cursor never moves
\* backwards.
C29_GenerateTerminates ==
    /\ <>Terminated
    /\ [][currentLine' >= currentLine]_vars

\* generate has returned the graph of an input whose connections form a
\* cycle, laid out by the force-directed algorithm
C29_Witness ==
    /\ ppc = "built"
    /\ config.algorithm = "force-directed"
    /\ Len(nodes) = 3
    /\ ~Acyclic

\* every id in a children or parents list is a node of the graph
AdjacencyClosed ==
    \A i \in 1..Len(nodes) :
        /\ \A k \in 1..Len(nodes[i].children) : MapHas(nodes, nodes[i].children[k])
        /\ \A k \in 1..Len(nodes[i].parents) : MapHas(nodes, nodes[i].parents[k])

\* C30: on a graph whose adjacency lists name only nodes of the graph,
\* hasCycles returns true exactly when the children relation has a directed
\* cycle, a self-connection being one, whatever the order in which the nodes
\* and the connections were added.
C30_HasCyclesExact ==
    (lastOp[1] = "hasCycles" /\ AdjacencyClosed)
        => (lastOp[2] = "true" <=> ~Acyclic)

\* hasCycles has returned false on a graph in which a node is reached along
\* two paths, the node added first being the one both paths end in
C30_Witness ==
    /\ lastOp = <<"hasCycles", "false">>
    /\ nodes[1].id = "C"
    /\ ChildEdges = {<<"A", "B">>, <<"A", "C">>, <<"B", "C">>}

====
